---- MODULE Spec2Model ----
(***************************************************************************)
(* A model of the record operations of the Salesforce MCP server: the      *)
(* multi-record path (DependencyResolver over SalesforceService and        *)
(* PreflightValidator), the single-record path of the                      *)
(* OperationOrchestrator, the choice execute makes between the two, the   *)
(* MetadataCacheManager over the Metadata Store, two calls of the resolver *)
(* that overlap, the SmartMatcher, and the PreflightValidator on its own.  *)
(*                                                                         *)
(* Strings are TLA+ strings; a payload value is a record that carries the  *)
(* JavaScript `typeof` of the value next to its text.  Node ids op_0,      *)
(* op_1, ... are the positions 1, 2, ... of the operations in the batch.   *)
(***************************************************************************)
EXTENDS Integers, Sequences, FiniteSets, TLC

VARIABLES
    route,         \* "multi": executeWithDependencies, "single": executeSingleOperation
    ops,          \* the RecordOperation[] handed to executeWithDependencies
    pc,           \* position inside executeWithDependencies / executePlan
    graph,        \* DependencyGraph.edges (node.dependencies is derived from it)
    circular,     \* CircularDependency[] found by the DFS
    breakPoints,  \* BreakPoint[]
    level,        \* GraphNode.level of every node
    changed,      \* the `changed` flag of calculateNodeLevels
    plan,         \* ExecutionBatch[]
    batchIdx,     \* index of the batch executePlan is working on
    promise,      \* per operation: the state of its executeOperation promise
    collected,    \* the operations whose settled promise the caller has consumed
    idMap,        \* tempId -> realId
    results,      \* OperationResult[] collected by executePlan
    errors,       \* ExecutionError[] collected by executePlan
    remote,       \* requests that reached the Remote Data Service, in order
    result,       \* the ExecutionResult / SingleOperationResult handed back
    input,        \* the OperationInput handed to execute
    now,          \* Date.now(), in milliseconds
    ttl,          \* MetadataCacheManager.ttl
    sobjects,     \* table sobjects: name -> synced_at of the row, if there is one
    relationships, \* table relationships: the rows stored by syncObject
    zone,         \* offset of the local time zone of the process, in milliseconds
    lastCall,     \* the call of the MetadataCacheManager that has just returned
    calls,        \* per overlapping call of executeWithDependencies: its locals
    ledger,       \* the requests of all calls at the Remote Data Service, in order
    matcher,      \* the call of the SmartMatcher in progress, and what it returned
    validator     \* the call of the PreflightValidator, and the ValidationResult

\* the state of the MetadataCacheManager and of the Metadata Store behind it
cacheVars == <<now, ttl, sobjects, relationships, zone, lastCall>>

\* the state of calls that overlap on one DependencyResolver, of the
\* SmartMatcher and of the PreflightValidator called on its own
apartVars == <<calls, ledger, matcher, validator>>

\* the state of a call that is followed alone
singleVars == <<route, ops, pc, graph, circular, breakPoints, level, changed, plan,
                batchIdx, promise, collected, idMap, results, errors, remote, result,
                input>>

vars == <<route, ops, pc, graph, circular, breakPoints, level, changed, plan,
          batchIdx, promise, collected, idMap, results, errors, remote, result,
          input, cacheVars, apartVars>>

----------------------------------------------------------------------------
(* Bounds of the model.                                                    *)

\* Largest batch whose execution is followed step by step.
MaxOps == 3

\* Largest batch whose execution plan is computed.
MaxPlanOps == 4

----------------------------------------------------------------------------
(* JavaScript values.                                                      *)

undefined == ""

Str(s) == [typeof |-> "string", v |-> s]
Num(s) == [typeof |-> "number", v |-> s]
Bool(s) == [typeof |-> "boolean", v |-> s]
Null == [typeof |-> "object", v |-> "null"]

\* value.startsWith('@') for a string value
startsWithAt(s) == Len(s) > 0 /\ SubSeq(s, 1, 1) = "@"

\* typeof value === 'string' && value.startsWith('@')
isTempRef(val) == val.typeof = "string" /\ startsWithAt(val.v)

\* JavaScript falsiness of a payload value (!value)
isFalsy(val) ==
    \/ val = Null
    \/ val.typeof = "string" /\ val.v = ""
    \/ val.typeof = "number" /\ val.v = "0"
    \/ val.typeof = "boolean" /\ val.v = "false"

\* Object.entries / for-in order of a payload: the order the keys were written.
FieldOrder == <<"Name", "Industry", "Employees", "ParentId", "AccountId">>

keysOf(data) == SelectSeq(FieldOrder, LAMBDA f : f \in DOMAIN data)

\* The temporary id of the i-th operation of a batch, and one no operation has.
TempIdOf(i) == <<"@1", "@2", "@3", "@4", "@5", "@6">>[i]
MissingTempId == "@x"

\* The id the Remote Data Service assigns to the record of the i-th request.
RealIdOf(i) == <<"001000000000001", "001000000000002", "001000000000003",
                 "001000000000004", "001000000000005", "001000000000006">>[i]
ExistingId == "001000000000099"

----------------------------------------------------------------------------
(* The metadata store after a sync: sobjects, fields, relationships.       *)

Field(name, type, length, required, default, picklist) ==
    [name |-> name, type |-> type, length |-> length, is_required |-> required,
     default_value |-> default, picklist_values |-> picklist]

Rel(field, to, required) ==
    [field_name |-> field, to_sobject |-> to, is_required |-> required]

StoredSObjects == {"Account", "Detail", "Report"}

getSObject(name) ==
    CASE name = "Account" -> [found |-> TRUE, is_createable |-> TRUE, is_updateable |-> TRUE]
      [] name = "Detail"  -> [found |-> TRUE, is_createable |-> TRUE, is_updateable |-> TRUE]
      [] name = "Report"  -> [found |-> TRUE, is_createable |-> FALSE, is_updateable |-> FALSE]
      [] OTHER            -> [found |-> FALSE, is_createable |-> FALSE, is_updateable |-> FALSE]

getFields(name) ==
    CASE name = "Account" ->
           << Field("Name", "string", 4, TRUE, "", {}),
              Field("Industry", "picklist", 0, FALSE, "", {"Tech", "Bank"}),
              Field("Employees", "int", 0, FALSE, "", {}),
              Field("ParentId", "reference", 18, FALSE, "", {}),
              Field("OwnerId", "reference", 18, TRUE, "", {}),
              Field("IsDeleted", "boolean", 0, TRUE, "false", {}) >>
      [] name = "Detail" ->
           << Field("Name", "string", 4, FALSE, "", {}),
              Field("ParentId", "reference", 18, TRUE, "", {}),
              Field("AccountId", "reference", 18, FALSE, "", {}) >>
      [] name = "Report" ->
           << Field("Name", "string", 4, TRUE, "", {}) >>
      [] OTHER -> << >>

getRequiredFields(name) == SelectSeq(getFields(name), LAMBDA f : f.is_required)

getRelationships(name) ==
    CASE name = "Account" -> << Rel("ParentId", "Account", FALSE),
                                Rel("OwnerId", "User", TRUE) >>
      [] name = "Detail"  -> << Rel("ParentId", "Account", TRUE),
                                Rel("AccountId", "Account", FALSE) >>
      [] OTHER -> << >>

\* Active validation rules of an sobject (their number is all the code reads).
getValidationRules(name) == IF name = "Detail" THEN <<"Rule1">> ELSE << >>

----------------------------------------------------------------------------
(* PreflightValidator.                                                     *)

Finding(field, type) == [field |-> field, type |-> type]

\* Array.prototype.find over a sequence: the first element satisfying Test,
\* as a sequence of length 0 (undefined) or 1.
findFirst(seq, Test(_)) ==
    LET hits == SelectSeq(seq, Test)
    IN  IF hits = << >> THEN << >> ELSE << hits[1] >>

\* Concatenation of the sequences F(s[1]), F(s[2]), ... in order.
flatMap(seq, F(_)) ==
    LET acc[i \in 0..Len(seq)] == IF i = 0 THEN << >> ELSE acc[i - 1] \o F(seq[i])
    IN  acc[Len(seq)]

\* validateRequiredFields: the fields the caller has to provide itself
excludedFields ==
    {"Id", "IsDeleted", "CreatedDate", "CreatedById", "LastModifiedDate",
     "LastModifiedById", "SystemModstamp", "LastViewedDate", "LastReferencedDate",
     "IsExcludedFromRealign", "IsPartner", "IsCustomerPortal", "HasOptedOutOfEmail",
     "HasOptedOutOfFax", "DoNotCall", "IsEmailBounced", "IsPriorityRecord",
     "OwnerId"}

validateRequiredFields(requiredFields, data) ==
    LET userRequired ==
            SelectSeq(requiredFields,
                      LAMBDA f : f.name \notin excludedFields /\ f.default_value = "")
        missing(f) == \/ f.name \notin DOMAIN data
                      \/ data[f.name] = Null
                      \/ data[f.name] = Str("")
    IN  flatMap(userRequired,
                LAMBDA f : IF missing(f) THEN << Finding(f.name, "REQUIRED_FIELD") >>
                           ELSE << >>)

\* validateFieldType: the typeof each field type accepts
expectedTypes(fieldType) ==
    CASE fieldType \in {"string", "textarea", "email", "url", "phone", "picklist",
                        "multipicklist", "id", "reference", "date", "datetime",
                        "time"}                          -> {"string"}
      [] fieldType \in {"int", "double", "currency", "percent"} -> {"number"}
      [] fieldType = "boolean"                           -> {"boolean"}
      [] OTHER                                           -> {"any"}

validateFieldType(field, val) ==
    IF "any" \notin expectedTypes(field.type) /\ val.typeof \notin expectedTypes(field.type)
    THEN << Finding(field.name, "TYPE_MISMATCH") >>
    ELSE << >>

validatePicklist(field, val) ==
    IF val.v \notin field.picklist_values
    THEN << Finding(field.name, "INVALID_PICKLIST_VALUE") >>
    ELSE << >>

\* validateFields, the errors it pushes for one key of the payload
fieldErrors(allFields, data, fieldName) ==
    LET found == findFirst(allFields, LAMBDA f : f.name = fieldName)
        field == found[1]
        val   == data[fieldName]
    IN  IF found = << >> \/ val = Null THEN << >>
        ELSE validateFieldType(field, val)
             \o (IF field.type = "string" /\ field.length # 0 /\ val.typeof = "string"
                    /\ Len(val.v) > field.length
                 THEN << Finding(fieldName, "LENGTH_EXCEEDED") >> ELSE << >>)
             \o (IF field.type = "picklist" /\ field.picklist_values # {}
                 THEN validatePicklist(field, val) ELSE << >>)

\* validateFields, the warnings it pushes for one key of the payload
fieldWarnings(allFields, data, fieldName) ==
    IF findFirst(allFields, LAMBDA f : f.name = fieldName) = << >>
    THEN << Finding(fieldName, "UNKNOWN_FIELD") >>
    ELSE << >>

validateFieldsErrors(allFields, data) ==
    flatMap(keysOf(data), LAMBDA k : fieldErrors(allFields, data, k))

validateFieldsWarnings(allFields, data) ==
    flatMap(keysOf(data), LAMBDA k : fieldWarnings(allFields, data, k))

checkValidationRules(sobjectName) ==
    IF Len(getValidationRules(sobjectName)) > 0
    THEN << Finding("__validation_rules__", "VALIDATION_RULES_EXIST") >>
    ELSE << >>

systemRelationships == {"OwnerId", "CreatedById", "LastModifiedById", "RecordTypeId"}

hasTruthy(data, fieldName) == fieldName \in DOMAIN data /\ ~isFalsy(data[fieldName])

checkRelationshipsErrors(sobjectName, data) ==
    flatMap(getRelationships(sobjectName),
            LAMBDA rel : IF rel.field_name \notin systemRelationships
                            /\ rel.is_required /\ ~hasTruthy(data, rel.field_name)
                         THEN << Finding(rel.field_name, "REQUIRED_RELATIONSHIP") >>
                         ELSE << >>)

checkRelationshipsSuggestions(sobjectName, data) ==
    flatMap(getRelationships(sobjectName),
            LAMBDA rel : IF rel.field_name \notin systemRelationships
                            /\ hasTruthy(data, rel.field_name)
                         THEN << Finding(rel.field_name, "REFERENCE_CHECK") >>
                         ELSE << >>)

\* result.valid = false; result.errors.push(finding)
pushError(res, finding) ==
    [res EXCEPT !.valid = FALSE, !.errors = Append(@, finding)]

\* a push of a warning that also clears result.valid
pushWarning_invalidating(res, finding) ==
    [res EXCEPT !.valid = FALSE, !.warnings = Append(@, finding)]

\* result.warnings.push(finding)
pushWarning(res, finding) ==
    [res EXCEPT !.warnings = Append(@, finding)]

\* result.suggestions.push(finding)
pushSuggestion(res, finding) ==
    [res EXCEPT !.suggestions = Append(@, finding)]

\* the pushes of one kind, in order
RECURSIVE pushEach(_, _, _)
pushEach(res, findings, kind) ==
    IF findings = << >> THEN res
    ELSE pushEach(CASE kind = "error" -> pushError(res, findings[1])
                    [] kind = "warning" -> pushWarning(res, findings[1])
                    [] OTHER -> pushSuggestion(res, findings[1]),
                  Tail(findings), kind)

\* The ValidationResult a validation hands back: it starts as
\* { valid: true, errors: [], warnings: [], suggestions: [] } and takes
\* the pushes of the checks.
ValidationResult(errs, warns, suggs) ==
    pushEach(pushEach(pushEach([valid |-> TRUE, errors |-> << >>, warnings |-> << >>,
                                suggestions |-> << >>],
                               errs, "error"),
                      warns, "warning"),
             suggs, "suggestion")

validateCreate(sobjectName, data) ==
    LET sobject == getSObject(sobjectName)
    IN  IF ~sobject.found
        THEN ValidationResult(<< Finding("__sobject__", "METADATA_NOT_FOUND") >>, << >>, << >>)
        ELSE IF ~sobject.is_createable
        THEN ValidationResult(<< Finding("__sobject__", "CRUD_PERMISSION") >>, << >>, << >>)
        ELSE ValidationResult(
                 validateRequiredFields(getRequiredFields(sobjectName), data)
                     \o validateFieldsErrors(getFields(sobjectName), data)
                     \o checkRelationshipsErrors(sobjectName, data),
                 validateFieldsWarnings(getFields(sobjectName), data)
                     \o checkValidationRules(sobjectName),
                 checkRelationshipsSuggestions(sobjectName, data))

validateUpdate(sobjectName, recordId, data) ==
    LET sobject == getSObject(sobjectName)
    IN  IF ~sobject.found
        THEN ValidationResult(<< Finding("__sobject__", "METADATA_NOT_FOUND") >>, << >>, << >>)
        ELSE IF ~sobject.is_updateable
        THEN ValidationResult(<< Finding("__sobject__", "CRUD_PERMISSION") >>, << >>, << >>)
        ELSE ValidationResult(
                 validateFieldsErrors(getFields(sobjectName), data)
                     \o checkRelationshipsErrors(sobjectName, data),
                 validateFieldsWarnings(getFields(sobjectName), data)
                     \o checkValidationRules(sobjectName),
                 checkRelationshipsSuggestions(sobjectName, data))

----------------------------------------------------------------------------
(* DependencyResolver: graph construction, cycle detection, leveling.      *)

RecordOperation(type, sobject, data, tempId, recordId) ==
    [type |-> type, sobject |-> sobject, data |-> data,
     tempId |-> tempId, recordId |-> recordId]

Nodes(operations) == 1..Len(operations)

nodeSeq(operations) == [i \in 1..Len(operations) |-> i]

\* graph.nodes.find(n => n.tempId === value)
findByTempId(operations, value) ==
    findFirst(nodeSeq(operations), LAMBDA j : operations[j].tempId = value)

\* buildDependencyGraph: the edges, in the order they are pushed
buildDependencyGraph(operations) ==
    flatMap(nodeSeq(operations),
        LAMBDA i :
            flatMap(keysOf(operations[i].data),
                LAMBDA fieldName :
                    LET val == operations[i].data[fieldName]
                        ref == IF isTempRef(val) THEN findByTempId(operations, val.v)
                               ELSE << >>
                    IN  IF ref # << >>
                        THEN << [from |-> ref[1], to |-> i, field |-> fieldName] >>
                        ELSE << >>))

\* node.dependencies, in push order
dependencies(edges, nodeId) ==
    flatMap(edges, LAMBDA e : IF e.to = nodeId THEN << e.from >> ELSE << >>)

\* path.slice(path.indexOf(depId)); indexOf is -1 when depId is not on the
\* path, and slice(-1) is then the last element alone.
cycleFrom(path, depId) ==
    LET at == {k \in 1..Len(path) : path[k] = depId}
    IN  IF at = {} THEN << path[Len(path)] >>
        ELSE SubSeq(path, CHOOSE k \in at : \A m \in at : k <= m, Len(path))

\* dfs(nodeId, path): `st` carries visited, recStack and circular, which the
\* closure shares across calls; recStack keeps a node when dfs returns true.
RECURSIVE dfs(_, _, _, _)
RECURSIVE dfsDeps(_, _, _, _, _)
dfs(edges, nodeId, path, st) ==
    dfsDeps(edges, nodeId, 1, Append(path, nodeId),
            [st EXCEPT !.visited = @ \cup {nodeId}, !.recStack = @ \cup {nodeId}])

dfsDeps(edges, nodeId, k, path, st) ==
    LET deps == dependencies(edges, nodeId)
    IN  IF k > Len(deps)
        THEN [found |-> FALSE, st |-> [st EXCEPT !.recStack = @ \ {nodeId}]]
        ELSE IF deps[k] \notin st.visited
        THEN LET r == dfs(edges, deps[k], path, st)
             IN  IF r.found THEN r ELSE dfsDeps(edges, nodeId, k + 1, path, r.st)
        ELSE IF deps[k] \in st.recStack
        THEN [found |-> TRUE,
              st |-> [st EXCEPT !.circular = Append(@, cycleFrom(path, deps[k]))]]
        ELSE dfsDeps(edges, nodeId, k + 1, path, st)

detectCircularDependencies(edges, n) ==
    LET acc[i \in 0..n] ==
            IF i = 0 THEN [visited |-> {}, recStack |-> {}, circular |-> << >>]
            ELSE IF i \in acc[i - 1].visited THEN acc[i - 1]
            ELSE dfs(edges, i, << >>, acc[i - 1]).st
    IN  acc[n].circular

\* identifyCircularBreakPoints, for one cycle: the first position i whose edge
\* cycle[i] -> cycle[i+1] exists and sits on a relationship that is not required
breakable(operations, edges, cycle, i) ==
    LET fromNodeId == cycle[i]
        toNodeId   == cycle[(i % Len(cycle)) + 1]
        edge == findFirst(edges, LAMBDA e : e.from = fromNodeId /\ e.to = toNodeId)
        rel  == IF edge = << >> THEN << >>
                ELSE findFirst(getRelationships(operations[toNodeId].sobject),
                               LAMBDA r : r.field_name = edge[1].field)
    IN  edge # << >> /\ rel # << >> /\ ~rel[1].is_required

breakPointOf(operations, edges, cycle) ==
    LET at == {i \in 1..Len(cycle) : breakable(operations, edges, cycle, i)}
        i  == CHOOSE k \in at : \A m \in at : k <= m
        toNodeId == cycle[(i % Len(cycle)) + 1]
        edge == findFirst(edges, LAMBDA e : e.from = cycle[i] /\ e.to = toNodeId)
    IN  IF at = {} THEN << >>
        ELSE << [nodeId |-> toNodeId, field |-> edge[1].field,
                 strategy |-> "create-then-update"] >>

identifyCircularBreakPoints(operations, edges, cycles) ==
    flatMap(cycles, LAMBDA cycle : breakPointOf(operations, edges, cycle))

breakNodeIds(bps) == {bps[k].nodeId : k \in 1..Len(bps)}

\* levelPass with `<` in place of `<=` in the comparison of the levels
levelPass_strict(edges, bps, lv) ==
    LET acc[k \in 0..Len(edges)] ==
            IF k = 0 THEN [level |-> lv, changed |-> FALSE]
            ELSE LET e == edges[k]
                     prev == acc[k - 1]
                 IN  IF e.to \in breakNodeIds(bps) THEN prev
                     ELSE IF prev.level[e.to] < prev.level[e.from]
                     THEN [level |-> [prev.level EXCEPT ![e.to] = prev.level[e.from] + 1],
                           changed |-> TRUE]
                     ELSE prev
    IN  acc[Len(edges)]

\* calculateNodeLevels: one execution of the body of `while (changed)`.  The
\* loops visit node by node, dependency by dependency: the order of the edges.
levelPass(edges, bps, lv) ==
    LET acc[k \in 0..Len(edges)] ==
            IF k = 0 THEN [level |-> lv, changed |-> FALSE]
            ELSE LET e == edges[k]
                     prev == acc[k - 1]
                 IN  IF e.to \in breakNodeIds(bps) THEN prev
                     ELSE IF prev.level[e.to] <= prev.level[e.from]
                     THEN [level |-> [prev.level EXCEPT ![e.to] = prev.level[e.from] + 1],
                           changed |-> TRUE]
                     ELSE prev
    IN  acc[Len(edges)]

\* generateExecutionPlan: group by level, one batch per level, ascending
sortedLevels(lv) ==
    LET used == {lv[n] : n \in DOMAIN lv}
        ord[k \in 0..Cardinality(used)] ==
            IF k = 0 THEN << >>
            ELSE Append(ord[k - 1],
                        CHOOSE x \in used :
                            Cardinality({y \in used : y < x}) = k - 1)
    IN  ord[Cardinality(used)]

ExecutionBatch(operations, bps, lv, l) ==
    LET nodeIds == SelectSeq(nodeSeq(operations), LAMBDA n : lv[n] = l)
    IN  [level |-> l,
         nodeIds |-> nodeIds,
         canParallelize |-> Len(nodeIds) > 1,
         breakPoints |-> SelectSeq(bps, LAMBDA bp : lv[bp.nodeId] = l)]

generateExecutionPlan(operations, bps, lv) ==
    LET ls == sortedLevels(lv)
    IN  [b \in 1..Len(ls) |-> ExecutionBatch(operations, bps, lv, ls[b])]

----------------------------------------------------------------------------
(* SalesforceService and DependencyResolver.executeOperation.              *)

Threw(message) == [threw |-> TRUE, message |-> message]

Request(method, sobject, data, id) ==
    [threw |-> FALSE, method |-> method, sobject |-> sobject, data |-> data, id |-> id]

\* validateRecordId: non-empty, 15 or 18 characters
validRecordId(id) == id # undefined /\ Len(id) \in {15, 18}

\* validateRecordData: an object with at least one key
validRecordData(data) == DOMAIN data # {}

\* createRecord without the preflight validation
createRecord_unchecked(sobject, data) ==
    IF ~validRecordData(data) THEN Threw("Failed to create record")
    ELSE Request("create", sobject, data, undefined)

\* createRecord up to the call of conn.sobject(..).create(data)
createRecord(sobject, data) ==
    IF ~validRecordData(data) THEN Threw("Failed to create record")
    ELSE IF ~validateCreate(sobject, data).valid THEN Threw("Pre-flight validation failed")
    ELSE Request("create", sobject, data, undefined)

\* updateRecord up to the call of conn.sobject(..).update({Id: id, ...data})
updateRecord(sobject, id, data) ==
    IF ~validRecordId(id) \/ ~validRecordData(data) THEN Threw("Failed to update record")
    ELSE IF ~validateUpdate(sobject, id, data).valid THEN Threw("Pre-flight validation failed")
    ELSE Request("update", sobject, data, id)

\* deleteRecord up to the call of conn.sobject(..).destroy(id)
deleteRecord(sobject, id) ==
    IF ~validRecordId(id) THEN Threw("Failed to delete record")
    ELSE Request("delete", sobject, << >>, id)

\* executeOperation, the temporary references of the payload that idMap lacks
unresolved(data, ids) ==
    SelectSeq(keysOf(data),
              LAMBDA f : isTempRef(data[f]) /\ data[f].v \notin DOMAIN ids)

\* resolveData that leaves the temporary references in place
resolveData_raw(data, ids) == data

\* executeOperation, resolvedData: every temporary reference replaced
resolveData(data, ids) ==
    [f \in DOMAIN data |->
        IF isTempRef(data[f]) /\ data[f].v \in DOMAIN ids
        THEN Str(ids[data[f].v]) ELSE data[f]]

\* executeOperation that goes on when a reference is not in the id map
executeOperation_lenient(operation, ids) ==
    CASE operation.type = "create" ->
           createRecord(operation.sobject, resolveData(operation.data, ids))
      [] operation.type = "update" ->
           IF operation.recordId = undefined
           THEN Threw("Update operation requires recordId")
           ELSE updateRecord(operation.sobject, operation.recordId,
                             resolveData(operation.data, ids))
      [] operation.type = "delete" ->
           IF operation.recordId = undefined
           THEN Threw("Delete operation requires recordId")
           ELSE deleteRecord(operation.sobject, operation.recordId)
      [] OTHER -> Threw("Unknown operation type")

\* executeOperation up to the first call that leaves the process: either it
\* throws, or a request goes to the Remote Data Service.
executeOperation(operation, ids) ==
    IF unresolved(operation.data, ids) # << >>
    THEN Threw("Cannot resolve reference")
    ELSE CASE operation.type = "create" ->
                createRecord(operation.sobject, resolveData(operation.data, ids))
           [] operation.type = "update" ->
                IF operation.recordId = undefined
                THEN Threw("Update operation requires recordId")
                ELSE updateRecord(operation.sobject, operation.recordId,
                                  resolveData(operation.data, ids))
           [] operation.type = "delete" ->
                IF operation.recordId = undefined
                THEN Threw("Delete operation requires recordId")
                ELSE deleteRecord(operation.sobject, operation.recordId)
           [] OTHER -> Threw("Unknown operation type")


\* What the Remote Data Service may answer to a request: a SaveResult with
\* success and the record id, a SaveResult without success (and without id),
\* or a rejection, which the service rethrows.
Outcomes == {"saved", "refused", "rejected"}

\* The id in the SaveResult of an accepted request: the id the service gives
\* the created record, the id of the record updated or deleted.
savedId(operation, n) ==
    IF operation.type = "create" THEN RealIdOf(n) ELSE operation.recordId

OperationResult(operation, success, id) ==
    [tempId |-> operation.tempId, sobject |-> operation.sobject,
     type |-> operation.type, success |-> success, id |-> id]

ExecutionError(message, phase, node) ==
    [message |-> message, phase |-> phase, operation |-> node]

None == [state |-> "none"]
Pending == [state |-> "pending"]
Fulfilled(value) == [state |-> "fulfilled", value |-> value]
Rejected(reason) == [state |-> "rejected", reason |-> reason]

----------------------------------------------------------------------------
(* The batches the caller may submit.                                      *)

Range(seq) == {seq[k] : k \in 1..Len(seq)}

\* A create of an Account named Acme that carries the temporary id of its
\* position and, when parent > 0, references the operation at that position.
PlainData(parent) ==
    IF parent = 0 THEN [f \in {"Name"} |-> Str("Acme")]
    ELSE [f \in {"Name", "ParentId"} |->
             IF f = "Name" THEN Str("Acme") ELSE Str(TempIdOf(parent))]

PlainOp(i, parent) ==
    RecordOperation("create", "Account", PlainData(parent), TempIdOf(i), undefined)

Variants ==
    {"plain", "noTempId", "update", "updateNoId", "delete", "deleteNoId",
     "emptyData", "ghost", "report", "noName", "numName", "longName", "badPick",
     "detail", "missingRef"}

without(data, f) == [g \in DOMAIN data \ {f} |-> data[g]]

with(data, f, val) == [g \in DOMAIN data \cup {f} |-> IF g = f THEN val ELSE data[g]]

Vary(op, variant) ==
    CASE variant = "plain"      -> op
      [] variant = "noTempId"   -> [op EXCEPT !.tempId = undefined]
      [] variant = "update"     -> [op EXCEPT !.type = "update", !.recordId = ExistingId]
      [] variant = "updateNoId" -> [op EXCEPT !.type = "update"]
      [] variant = "delete"     -> [op EXCEPT !.type = "delete", !.recordId = ExistingId]
      [] variant = "deleteNoId" -> [op EXCEPT !.type = "delete"]
      [] variant = "emptyData"  -> [op EXCEPT !.data = << >>]
      [] variant = "ghost"      -> [op EXCEPT !.sobject = "Ghost"]
      [] variant = "report"     -> [op EXCEPT !.sobject = "Report"]
      [] variant = "noName"     -> [op EXCEPT !.data = without(@, "Name")]
      [] variant = "numName"    -> [op EXCEPT !.data = with(@, "Name", Num("42"))]
      [] variant = "longName"   -> [op EXCEPT !.data = with(@, "Name", Str("Acme Corp"))]
      [] variant = "badPick"    -> [op EXCEPT !.data = with(@, "Industry", Str("Farm"))]
      [] variant = "detail"     -> [op EXCEPT !.sobject = "Detail"]
      [] variant = "missingRef" -> [op EXCEPT !.data = with(@, "AccountId", Str(MissingTempId))]

\* A batch of n operations: any reference structure over the ParentId field;
\* the last operation may depart from the plain create.
ExecBatch(n, parent, variant) ==
    [i \in 1..n |-> IF i = n THEN Vary(PlainOp(i, parent[i]), variant)
                    ELSE PlainOp(i, parent[i])]

\* The single operations the caller may submit: a key of the payload is
\* either left out or holds one of a few values.
Absent == [typeof |-> "undefined", v |-> ""]

OperationTypes == {"create", "update", "delete"}
SObjectNames == {"Account", "Detail", "Report", "Ghost"}
NameValues == {Absent, Str("Acme"), Str("Acme Corp"), Str(""), Num("42")}
IndustryValues == {Absent, Str("Tech"), Str("Farm")}
ParentIdValues == {Absent, Str(ExistingId)}
RecordIds == {undefined, ExistingId, "bad"}

SingleData(name, industry, parentId) ==
    LET given == [f \in {"Name", "Industry", "ParentId"} |->
                     CASE f = "Name"     -> name
                       [] f = "Industry" -> industry
                       [] OTHER          -> parentId]
    IN  [f \in {g \in DOMAIN given : given[g] # Absent} |-> given[f]]

SingleRecordOperation(type, sobject, data, recordId) ==
    RecordOperation(type, sobject, data, undefined, recordId)

----------------------------------------------------------------------------
(* MetadataCacheManager, over the Metadata Store and MetadataSyncService.  *)

MsPerSecond == 1000

\* MetadataCacheManager.DEFAULT_TTL_MS
DEFAULT_TTL_MS == 24 * 60 * 60 * 1000

\* The entities the org describes.  Each has one reference field.
Entities == {"Account", "Contact"}

\* MetadataCacheManager.CORE_OBJECTS, cut down to the entities of the model
CORE_OBJECTS == <<"Account", "Contact">>

\* describe.fields, the fields with a referenceTo
referenceFields(objectName) ==
    IF objectName = "Account"
    THEN << [name |-> "ParentId", referenceTo |-> <<"Account">>, nillable |-> TRUE] >>
    ELSE << [name |-> "AccountId", referenceTo |-> <<"Account">>, nillable |-> TRUE] >>

\* A row of table sobjects; synced_at is the text SQLite wrote, told by the
\* second it names.  NoRow: the name has no row.
NoRow == [present |-> FALSE, synced_at |-> 0]

Row(synced_at) == [present |-> TRUE, synced_at |-> synced_at]

\* synced_at IS NULL
NeverSynced == 0 - 1

\* SQLite CURRENT_TIMESTAMP: 'YYYY-MM-DD HH:MM:SS' in UTC, whole seconds
CURRENT_TIMESTAMP(time) == time \div MsPerSecond

\* new Date(text).getTime(): a text without zone is read as local time, so
\* the instant is `offset` (local minus UTC) before the one SQLite meant.
getTime(text, offset) == text * MsPerSecond - offset

\* MetadataDatabase.isMetadataStale, read at the instant `time`
isMetadataStale(rows, name, ttlMs, time, offset) ==
    LET sobject == rows[name]
    IN  IF ~sobject.present THEN TRUE
        ELSE IF sobject.synced_at = NeverSynced THEN TRUE
        ELSE time - getTime(sobject.synced_at, offset) > ttlMs

\* MetadataCacheManager.isCached
isCached(rows, sobject, ttlMs, time, offset) ==
    ~isMetadataStale(rows, sobject, ttlMs, time, offset)

\* findMissingOrStale that looks for a row only, whatever its age
findMissingOrStale_absentOnly(rows, objects, ttlMs, time, offset) ==
    SelectSeq(objects, LAMBDA obj : ~rows[obj].present)

\* MetadataCacheManager.findMissingOrStale
findMissingOrStale(rows, objects, ttlMs, time, offset) ==
    SelectSeq(objects, LAMBDA obj : isMetadataStale(rows, obj, ttlMs, time, offset))

\* The Metadata Store: the two tables the cache manager reads.
Store(rows, rels) == [sobjects |-> rows, relationships |-> rels]

\* MetadataSyncService.syncObject after a describe that succeeded: the row
\* of the object is written first; a relationship is stored only when the
\* entity it points to has a row; (from, field) has one row at most.
syncObject(db, objectName, time) ==
    LET rows == [db.sobjects EXCEPT ![objectName] = Row(CURRENT_TIMESTAMP(time))]
        fields == referenceFields(objectName)
        found == {[from_sobject |-> objectName, field_name |-> fields[k].name,
                   to_sobject |-> fields[k].referenceTo[j],
                   is_required |-> ~fields[k].nillable] :
                      k \in 1..Len(fields), j \in 1..1}
        stored == {r \in found : rows[r.to_sobject].present}
        replaced == {r \in db.relationships :
                        \E s \in stored : s.from_sobject = r.from_sobject
                                          /\ s.field_name = r.field_name}
    IN  Store(rows, (db.relationships \ replaced) \cup stored)

\* What the org does during one call: identity() answers or not, and the
\* describe of the entities in `failing` is rejected.
Weather(identityOk, failing) == [identityOk |-> identityOk, failing |-> failing]

\* MetadataSyncService.syncAll({objects}): a failed identity() throws; a
\* failed describe goes to result.errors and the loop goes on.
syncAll(db, objects, time, org) ==
    LET acc[k \in 0..Len(objects)] ==
            IF k = 0 THEN db
            ELSE IF objects[k] \in org.failing THEN acc[k - 1]
            ELSE syncObject(acc[k - 1], objects[k], time)
    IN  IF ~org.identityOk THEN [threw |-> TRUE, db |-> db, errors |-> << >>]
        ELSE [threw |-> FALSE, db |-> acc[Len(objects)],
              errors |-> SelectSeq(objects, LAMBDA obj : obj \in org.failing)]

\* MetadataCacheManager.syncObjects: rethrows what syncService.syncObjects
\* throws and does not look at result.errors
syncObjects(db, objects, time, org) ==
    LET r == syncAll(db, objects, time, org)
    IN  IF objects = << >> THEN [threw |-> FALSE, db |-> db]
        ELSE [threw |-> r.threw, db |-> r.db]

\* MetadataCacheManager.ensureMetadata; `missing` is what it hands to
\* syncObjects.
ensureMetadata(db, objects, ttlMs, time, offset, org) ==
    LET missing == findMissingOrStale(db.sobjects, objects, ttlMs, time, offset)
        r == syncObjects(db, missing, time, org)
    IN  IF objects = << >> THEN [threw |-> FALSE, db |-> db, missing |-> << >>]
        ELSE [threw |-> r.threw, db |-> r.db, missing |-> missing]

\* MetadataCacheManager.initialize
initialize(db, ttlMs, time, offset, org) ==
    LET missing == findMissingOrStale(db.sobjects, CORE_OBJECTS, ttlMs, time, offset)
        r == syncObjects(db, missing, time, org)
    IN  IF Len(missing) > 0 THEN [threw |-> r.threw, db |-> r.db, missing |-> missing]
        ELSE [threw |-> FALSE, db |-> db, missing |-> missing]

\* MetadataCacheManager.refreshMetadata
refreshMetadata(db, objects, time, org) == syncObjects(db, objects, time, org)

\* MetadataDatabase.clearMetadata
clearMetadata(db) == Store([name \in DOMAIN db.sobjects |-> NoRow], {})

\* db.getRelationships(sobject).map(r => r.to_sobject), without repetition
relatedObjects(db, sobject) ==
    {r.to_sobject : r \in {x \in db.relationships : x.from_sobject = sobject}}

\* MetadataCacheManager.ensureMetadataWithRelationships: the object itself,
\* then, while depth lasts, every object its stored relationships point to.
RECURSIVE ensureMetadataWithRelationships(_, _, _, _, _, _, _)
RECURSIVE ensureRelated(_, _, _, _, _, _, _)
ensureMetadataWithRelationships(db, sobject, depth, ttlMs, time, offset, org) ==
    LET own == ensureMetadata(db, << sobject >>, ttlMs, time, offset, org)
        related == relatedObjects(own.db, sobject)
    IN  IF own.threw THEN [threw |-> TRUE, db |-> own.db]
        ELSE IF depth <= 0 \/ related = {} THEN [threw |-> FALSE, db |-> own.db]
        ELSE ensureRelated(own.db, related, depth - 1, ttlMs, time, offset, org)

ensureRelated(db, todo, depth, ttlMs, time, offset, org) ==
    IF todo = {} THEN [threw |-> FALSE, db |-> db]
    ELSE LET relatedObj == CHOOSE o \in todo : TRUE
             r == ensureMetadataWithRelationships(db, relatedObj, depth, ttlMs, time,
                                                  offset, org)
         IN  IF r.threw THEN r
             ELSE ensureRelated(r.db, todo \ {relatedObj}, depth, ttlMs, time, offset, org)

\* What is kept of the call of the cache manager that has just returned: its
\* name and arguments, the requested names for which isCached held when it
\* was entered, what it handed to syncObjects, the describes the org rejected
\* meanwhile, and whether it threw.
Call(op, objects, depth, cached, missing, failing, threw) ==
    [op |-> op, objects |-> objects, depth |-> depth, cached |-> cached,
     missing |-> missing, failing |-> failing, threw |-> threw]

NoCall == Call("none", << >>, 0, {}, << >>, {}, FALSE)

\* No call through execute: the operations are handed to
\* executeWithDependencies or executeSingleOperation directly.
NoInput == [shape |-> "none", value |-> << >>]

\* No call of the PreflightValidator is in progress.
ValidatorIdle == [pc |-> "idle"]

\* No call of the SmartMatcher is in progress.
MatcherIdle == [pc |-> "idle"]

\* No call of executeWithDependencies overlaps another.
ApartIdle ==
    /\ calls = << >>
    /\ ledger = << >>
    /\ matcher = MatcherIdle
    /\ validator = ValidatorIdle

\* A cache manager that has just been constructed over an empty store.
CacheIdle ==
    /\ now = 0
    /\ ttl = DEFAULT_TTL_MS
    /\ sobjects = [name \in Entities |-> NoRow]
    /\ relationships = {}
    /\ zone = 0
    /\ lastCall = NoCall

----------------------------------------------------------------------------
(* executeWithDependencies and executePlan.                                *)

\* The `result` executeWithDependencies starts from.
NoResult == [success |-> TRUE, operations |-> << >>, executionPlan |-> << >>,
             errors |-> << >>]

\* executeWithDependencies, catch: the failure joins result.errors
analysisFailed(res, message) ==
    [res EXCEPT !.success = FALSE,
                !.errors = Append(@, ExecutionError(message, "analysis", 0))]

\* executePlan, the return after the loop over the batches
planDone(rs, es) == [success |-> es = << >>, operations |-> rs, errors |-> es]

\* planAborted that returns no operations, as the catch of the caller does
planAborted_empty(rs, es, message) ==
    [success |-> FALSE, operations |-> << >>,
     errors |-> Append(es, ExecutionError(message, "execution", 0))]

\* executePlan, catch: the return after a sequential operation has thrown
planAborted(rs, es, message) ==
    [success |-> FALSE, operations |-> rs,
     errors |-> Append(es, ExecutionError(message, "execution", 0))]

\* executeWithDependencies, step 4: what executePlan returned goes into result
executed(res, out) ==
    [res EXCEPT !.operations = out.operations, !.success = out.success,
                !.errors = out.errors]

InitState(entry, batch) ==
    /\ route = entry
    /\ ops = batch
    /\ pc = "start"
    /\ graph = << >>
    /\ circular = << >>
    /\ breakPoints = << >>
    /\ level = [n \in Nodes(batch) |-> 0]
    /\ changed = FALSE
    /\ plan = << >>
    /\ batchIdx = 0
    /\ promise = [n \in Nodes(batch) |-> None]
    /\ collected = {}
    /\ idMap = << >>
    /\ results = << >>
    /\ errors = << >>
    /\ remote = << >>
    /\ result = NoResult

Init ==
    /\ input = NoInput
    /\ CacheIdle
    /\ ApartIdle
    /\ \/ \E n \in 1..MaxOps :
              \E parent \in [1..n -> 0..n], variant \in Variants :
                  InitState("multi", ExecBatch(n, parent, variant))
       \/ \E type \in OperationTypes, sobject \in SObjectNames, recordId \in RecordIds :
              \E name \in NameValues, industry \in IndustryValues,
                 parentId \in ParentIdValues :
                  InitState("single",
                            << SingleRecordOperation(type, sobject,
                                   SingleData(name, industry, parentId), recordId) >>)

\* Steps 0 to 2 and the start of step 3: ensure metadata, build the graph,
\* detect cycles, choose break points, set every level to 0.  A failed sync
\* throws and is caught as an analysis error.
Analyze ==
    /\ route = "multi"
    /\ pc = "start"
    /\ \E syncOk \in BOOLEAN :
         IF syncOk
         THEN /\ graph' = buildDependencyGraph(ops)
              /\ circular' = detectCircularDependencies(graph', Len(ops))
              /\ breakPoints' = identifyCircularBreakPoints(ops, graph', circular')
              /\ level' = [n \in Nodes(ops) |-> 0]
              /\ changed' = TRUE
              /\ pc' = "leveling"
              /\ UNCHANGED result
         ELSE /\ result' = analysisFailed(result, "sync failed")
              /\ pc' = "returned"
              /\ UNCHANGED <<graph, circular, breakPoints, level, changed>>
    /\ UNCHANGED <<input, cacheVars, apartVars>>
    /\ UNCHANGED <<route, ops, plan, batchIdx, promise, collected, idMap, results,
                   errors, remote>>

\* A relaxation that converges never lifts a node above the number of nodes;
\* once a level is beyond it the loop is followed no further.
withinLevels(lv) == \A n \in DOMAIN lv : lv[n] <= Cardinality(DOMAIN lv)

\* One iteration of `while (changed)` in calculateNodeLevels.
LevelPass ==
    /\ pc = "leveling"
    /\ changed
    /\ withinLevels(level)
    /\ LET r == levelPass(graph, breakPoints, level)
       IN  /\ level' = r.level
           /\ changed' = r.changed
    /\ UNCHANGED <<input, cacheVars, apartVars>>
    /\ UNCHANGED <<route, ops, pc, graph, circular, breakPoints, plan, batchIdx,
                   promise, collected, idMap, results, errors, remote, result>>

\* The loop has ended: group the nodes into batches and enter executePlan.
GeneratePlan ==
    /\ pc = "leveling"
    /\ ~changed
    /\ plan' = generateExecutionPlan(ops, breakPoints, level)
    /\ result' = [result EXCEPT !.executionPlan = plan']
    /\ batchIdx' = 1
    /\ pc' = "executing"
    /\ UNCHANGED <<input, cacheVars, apartVars>>
    /\ UNCHANGED <<route, ops, graph, circular, breakPoints, level, changed, promise,
                   collected, idMap, results, errors, remote>>

\* batch.canParallelize && batch.operations.length > 1
isParallel(batch) == batch.canParallelize /\ Len(batch.nodeIds) > 1

\* The operations executeOperation is called for next: all of a parallel
\* batch at once, the first not yet started of a sequential one.
toStart(batch, pr) ==
    IF isParallel(batch) THEN batch.nodeIds
    ELSE LET waiting == SelectSeq(batch.nodeIds, LAMBDA n : pr[n].state = "none")
         IN  IF waiting = << >> THEN << >> ELSE << waiting[1] >>

\* allSettled that resolves with the first call that settles (Promise.race)
allSettled_race(batch, pr) ==
    \E n \in Range(batch.nodeIds) : pr[n].state \in {"fulfilled", "rejected"}

\* await Promise.allSettled(promises): every call made for the batch has settled
allSettled(batch, pr) ==
    \A n \in Range(batch.nodeIds) : pr[n].state \in {"fulfilled", "rejected"}

\* idMapSet that does not look at the id of the result
idMapSet_anyResult(ids, operation, value) ==
    IF operation.tempId # undefined
    THEN (operation.tempId :> value.id) @@ ids
    ELSE ids

\* if (op.tempId && result.id) idMap.set(op.tempId, result.id)
idMapSet(ids, operation, value) ==
    IF operation.tempId # undefined /\ value.id # undefined
    THEN (operation.tempId :> value.id) @@ ids
    ELSE ids

\* collectSettled that stops at the first rejection (Promise.all)
collectSettled_failFast(batch, pr, acc) ==
    LET step[k \in 0..Len(batch.nodeIds)] ==
            IF k = 0 THEN [acc |-> acc, failed |-> FALSE]
            ELSE LET n == batch.nodeIds[k]
                     prev == step[k - 1]
                 IN  CASE prev.failed -> prev
                       [] pr[n].state = "fulfilled" ->
                            [prev EXCEPT
                                !.acc.results = Append(@, pr[n].value),
                                !.acc.idMap = idMapSet(@, ops[n], pr[n].value)]
                       [] pr[n].state = "rejected" ->
                            [acc |-> [prev.acc EXCEPT
                                         !.errors = Append(@, ExecutionError(pr[n].reason,
                                                                             "execution", n))],
                             failed |-> TRUE]
                       [] OTHER -> prev
    IN  step[Len(batch.nodeIds)].acc

\* The loop over the settled results of a parallel batch.
collectSettled(batch, pr, acc) ==
    LET step[k \in 0..Len(batch.nodeIds)] ==
            IF k = 0 THEN acc
            ELSE LET n == batch.nodeIds[k]
                     prev == step[k - 1]
                 IN  CASE pr[n].state = "fulfilled" ->
                            [prev EXCEPT
                                !.results = Append(@, pr[n].value),
                                !.idMap = idMapSet(@, ops[n], pr[n].value)]
                       [] pr[n].state = "rejected" ->
                            [prev EXCEPT
                                !.errors = Append(@, ExecutionError(pr[n].reason,
                                                                    "execution", n))]
                       [] OTHER -> prev
    IN  step[Len(batch.nodeIds)]

\* The calls of executeOperation for the next operation(s) of the current
\* batch, each up to its request to the Remote Data Service.
Dispatch ==
    /\ pc = "executing"
    /\ batchIdx <= Len(plan)
    /\ LET batch == plan[batchIdx]
           start == toStart(batch, promise)
           out(n) == executeOperation(ops[n], idMap)
       IN  /\ start # << >>
           /\ \A n \in Range(batch.nodeIds) : promise[n].state = "none" \/ n \in collected
           /\ \A n \in Range(start) : promise[n].state = "none"
           /\ promise' = [n \in DOMAIN promise |->
                            IF n \notin Range(start) THEN promise[n]
                            ELSE IF out(n).threw THEN Rejected(out(n).message)
                            ELSE Pending]
           /\ remote' = remote \o
                  flatMap(start,
                          LAMBDA n : IF out(n).threw THEN << >>
                                     ELSE << [node |-> n, method |-> out(n).method,
                                              sobject |-> out(n).sobject,
                                              data |-> out(n).data, id |-> out(n).id] >>)
    /\ UNCHANGED <<input, cacheVars, apartVars>>
    /\ UNCHANGED <<route, ops, pc, graph, circular, breakPoints, level, changed, plan,
                   batchIdx, collected, idMap, results, errors, result>>

\* The Remote Data Service answers one outstanding request of the batch.
Respond(n, outcome) ==
    /\ pc = "executing"
    /\ promise[n] = Pending
    /\ promise' = [promise EXCEPT ![n] =
          CASE outcome = "saved" ->
                 Fulfilled(OperationResult(ops[n], TRUE, savedId(ops[n], n)))
            [] outcome = "refused" ->
                 Fulfilled(OperationResult(ops[n], FALSE, undefined))
            [] OTHER -> Rejected("Failed to " \o ops[n].type \o " record")]
    /\ UNCHANGED <<input, cacheVars, apartVars>>
    /\ UNCHANGED <<route, ops, pc, graph, circular, breakPoints, level, changed, plan,
                   batchIdx, collected, idMap, results, errors, remote, result>>

\* Promise.allSettled has resolved: record every outcome, go to the next batch.
CollectParallel ==
    /\ pc = "executing"
    /\ batchIdx <= Len(plan)
    /\ isParallel(plan[batchIdx])
    /\ \A n \in Range(plan[batchIdx].nodeIds) : promise[n].state # "none"
    /\ allSettled(plan[batchIdx], promise)
    /\ LET batch == plan[batchIdx]
           acc == collectSettled(batch, promise,
                      [results |-> results, errors |-> errors, idMap |-> idMap])
       IN  /\ results' = acc.results
           /\ errors' = acc.errors
           /\ idMap' = acc.idMap
           /\ collected' = collected \cup Range(batch.nodeIds)
    /\ batchIdx' = batchIdx + 1
    /\ UNCHANGED <<input, cacheVars, apartVars>>
    /\ UNCHANGED <<route, ops, pc, graph, circular, breakPoints, level, changed, plan,
                   promise, remote, result>>

\* The awaited call of a sequential batch has settled: record the result and
\* go on, or record the error, rethrow, and return from the catch blocks.
CollectSequential ==
    /\ pc = "executing"
    /\ batchIdx <= Len(plan)
    /\ ~isParallel(plan[batchIdx])
    /\ \E n \in Range(plan[batchIdx].nodeIds) \ collected :
         /\ promise[n].state \in {"fulfilled", "rejected"}
         /\ collected' = collected \cup {n}
         /\ IF promise[n].state = "fulfilled"
            THEN /\ results' = Append(results, promise[n].value)
                 /\ idMap' = idMapSet(idMap, ops[n], promise[n].value)
                 /\ batchIdx' = IF toStart(plan[batchIdx], promise) = << >>
                                THEN batchIdx + 1 ELSE batchIdx
                 /\ UNCHANGED <<errors, result, pc>>
            ELSE /\ errors' = Append(errors,
                                     ExecutionError(promise[n].reason, "execution", n))
                 /\ result' = executed(result,
                                       planAborted(results, errors', promise[n].reason))
                 /\ pc' = "returned"
                 /\ UNCHANGED <<results, idMap, batchIdx>>
    /\ UNCHANGED <<input, cacheVars, apartVars>>
    /\ UNCHANGED <<route, ops, graph, circular, breakPoints, level, changed, plan,
                   promise, remote>>

\* Every batch is done: executePlan and executeWithDependencies return.
Return ==
    /\ pc = "executing"
    /\ batchIdx > Len(plan)
    /\ result' = executed(result, planDone(results, errors))
    /\ pc' = "returned"
    /\ UNCHANGED <<input, cacheVars, apartVars>>
    /\ UNCHANGED <<route, ops, graph, circular, breakPoints, level, changed, plan,
                   batchIdx, promise, collected, idMap, results, errors, remote>>

----------------------------------------------------------------------------
(* OperationOrchestrator.executeSingleOperation.                           *)

null == "null"

SingleOperationResult(success, recordId, errs, warns) ==
    [success |-> success, recordId |-> recordId, errors |-> errs, warnings |-> warns]

\* validation.errors.map(e => e.message): a finding is told by its type
messages(findings) == [k \in 1..Len(findings) |-> findings[k].type]

\* What checkDuplicates may find: nothing (also when the search fails or the
\* payload has no Name), high-confidence matches, medium-confidence ones, both.
DuplicateFindings == {"none", "high", "medium", "both"}

\* Step 2: the warnings pushed for the duplicates of a create
duplicateWarnings(operation, dups) ==
    IF operation.type = "create" /\ hasTruthy(operation.data, "Name")
    THEN (IF dups \in {"high", "both"}
          THEN <<"POTENTIAL DUPLICATE", "1. match">> ELSE << >>)
         \o (IF dups \in {"medium", "both"} THEN <<"Possible duplicates">> ELSE << >>)
    ELSE << >>

\* Step 3: the validation that runs for the operation, if any
preflight(operation) ==
    CASE operation.type = "create" ->
           validateCreate(operation.sobject, operation.data)
      [] operation.type = "update" /\ operation.recordId # undefined ->
           validateUpdate(operation.sobject, operation.recordId, operation.data)
      [] OTHER -> ValidationResult(<< >>, << >>, << >>)

\* Step 4, up to the request the service sends
callService(operation) ==
    CASE operation.type = "create" ->
           createRecord(operation.sobject, operation.data)
      [] operation.type = "update" ->
           IF operation.recordId = undefined
           THEN Threw("Record ID required for update operation")
           ELSE updateRecord(operation.sobject, operation.recordId, operation.data)
      [] operation.type = "delete" ->
           IF operation.recordId = undefined
           THEN Threw("Record ID required for delete operation")
           ELSE deleteRecord(operation.sobject, operation.recordId)
      [] OTHER -> Threw("Unknown operation type")

\* executeSingleOperation after ensureMetadata, up to the answer of the
\* Remote Data Service: `done` tells whether it has returned.
executeSingleOperation(operation, dups) ==
    LET validation == preflight(operation)
        warnings == duplicateWarnings(operation, dups) \o messages(validation.warnings)
        call == callService(operation)
    IN  IF ~validation.valid
        THEN [done |-> TRUE, call |-> call,
              result |-> SingleOperationResult(FALSE, null,
                                               messages(validation.errors), warnings)]
        ELSE IF call.threw
        THEN [done |-> TRUE, call |-> call,
              result |-> SingleOperationResult(FALSE, null, << call.message >>, warnings)]
        ELSE [done |-> FALSE, call |-> call,
              result |-> SingleOperationResult(FALSE, null, << >>, warnings)]

\* executeSingleOperation from its entry to its return or to the request.
SingleStart ==
    /\ route = "single"
    /\ pc = "start"
    /\ \E syncOk \in BOOLEAN, dups \in DuplicateFindings :
         LET r == executeSingleOperation(ops[1], dups)
         IN  IF ~syncOk
             THEN /\ result' = SingleOperationResult(FALSE, null, <<"sync failed">>, << >>)
                  /\ pc' = "returned"
                  /\ UNCHANGED <<promise, remote>>
             ELSE IF r.done
             THEN /\ result' = r.result
                  /\ pc' = "returned"
                  /\ UNCHANGED <<promise, remote>>
             ELSE /\ result' = r.result
                  /\ pc' = "awaiting"
                  /\ promise' = [promise EXCEPT ![1] = Pending]
                  /\ remote' = Append(remote,
                                      [node |-> 1, method |-> r.call.method,
                                       sobject |-> r.call.sobject,
                                       data |-> r.call.data, id |-> r.call.id])
    /\ UNCHANGED <<input, cacheVars, apartVars>>
    /\ UNCHANGED <<route, ops, graph, circular, breakPoints, level, changed, plan,
                   batchIdx, collected, idMap, results, errors>>

\* The Remote Data Service answers the request of the single operation.
SingleRespond(outcome) ==
    /\ route = "single"
    /\ pc = "awaiting"
    /\ LET operation == ops[1]
           recordId == IF operation.type = "create" THEN undefined
                       ELSE operation.recordId
       IN  CASE outcome = "saved" ->
                  /\ promise' = [promise EXCEPT ![1] =
                         Fulfilled(OperationResult(operation, TRUE, savedId(operation, 1)))]
                  /\ result' = [result EXCEPT !.success = TRUE,
                                              !.recordId = savedId(operation, 1)]
             [] outcome = "refused" ->
                  /\ promise' = [promise EXCEPT ![1] =
                         Fulfilled(OperationResult(operation, FALSE, undefined))]
                  /\ result' = [result EXCEPT !.success = FALSE,
                                              !.recordId = recordId,
                                              !.errors = <<"refused">>]
             [] OTHER ->
                  /\ promise' = [promise EXCEPT ![1] =
                         Rejected("Failed to " \o operation.type \o " record")]
                  /\ result' = [result EXCEPT !.success = FALSE,
                                   !.errors = Append(@, promise'[1].reason)]
    /\ pc' = "returned"
    /\ UNCHANGED <<input, cacheVars, apartVars>>
    /\ UNCHANGED <<route, ops, graph, circular, breakPoints, level, changed, plan,
                   batchIdx, collected, idMap, results, errors, remote>>

Next ==
    \/ Analyze
    \/ LevelPass
    \/ GeneratePlan
    \/ Dispatch
    \/ \E n \in Nodes(ops), outcome \in Outcomes : Respond(n, outcome)
    \/ CollectParallel
    \/ CollectSequential
    \/ Return
    \/ SingleStart
    \/ \E outcome \in Outcomes : SingleRespond(outcome)

Spec == Init /\ [][Next]_vars

----------------------------------------------------------------------------
(* Planning alone, over larger batches: executeWithDependencies followed   *)
(* up to the execution plan it hands to executePlan.                       *)

\* The i-th operation of a planning batch: Accounts at the odd positions and
\* Details at the even ones, ParentId referencing the operation at `parent`
\* (0: none), AccountId referencing the one at `second` (0: none).
PlanData(parent, second) ==
    [f \in {"Name"} \cup (IF parent = 0 THEN {} ELSE {"ParentId"})
                    \cup (IF second = 0 THEN {} ELSE {"AccountId"}) |->
        CASE f = "Name"     -> Str("Acme")
          [] f = "ParentId" -> Str(TempIdOf(parent))
          [] OTHER          -> Str(TempIdOf(second))]

PlanOp(i, parent, second) ==
    RecordOperation("create", IF i % 2 = 1 THEN "Account" ELSE "Detail",
                    PlanData(parent, second), TempIdOf(i), undefined)

\* Any reference structure over ParentId; the last operation may hold a
\* second reference, to an operation listed before it.
PlanBatch(n, parent, second) ==
    [i \in 1..n |-> PlanOp(i, parent[i], IF i = n THEN second ELSE 0)]

InitPlan ==
    /\ input = NoInput
    /\ CacheIdle
    /\ ApartIdle
    /\ \E n \in 1..MaxPlanOps :
           \E parent \in [1..n -> 0..n], second \in 0..(n - 1) :
               InitState("multi", PlanBatch(n, parent, second))

NextPlan ==
    \/ Analyze
    \/ LevelPass
    \/ GeneratePlan

SpecPlan == InitPlan /\ [][NextPlan]_vars

----------------------------------------------------------------------------
(* OperationOrchestrator.execute: the choice between the two paths.        *)

\* Largest array handed to execute.
MaxArray == 2

\* 'sobject' in input && 'type' in input
ObjectInput(operation) == [shape |-> "object", value |-> << operation >>]

\* Array.isArray(input)
ArrayInput(operations) == [shape |-> "array", value |-> operations]

\* Anything else, such as an object without `type`
OtherInput == [shape |-> "other", value |-> << >>]

\* hasDependencies that only counts a reference to a temporary id of the array
hasDependencies_known(operations) ==
    \E i \in 1..Len(operations) : \E f \in DOMAIN operations[i].data :
        /\ isTempRef(operations[i].data[f])
        /\ findByTempId(operations, operations[i].data[f].v) # << >>

\* execute, hasDependencies: some value of some payload is a string that
\* starts with '@'
hasDependencies(operations) ==
    \E i \in 1..Len(operations) : \E f \in DOMAIN operations[i].data :
        isTempRef(operations[i].data[f])

\* execute: the path taken and the operations handed to it
execute(inp) ==
    IF inp.shape = "object"
    THEN [route |-> "single", ops |-> inp.value]
    ELSE IF inp.shape = "array" /\ (hasDependencies(inp.value) \/ Len(inp.value) > 1)
    THEN [route |-> "multi", ops |-> inp.value]
    ELSE IF inp.shape = "array" /\ Len(inp.value) = 1
    THEN [route |-> "single",
          ops |-> << SingleRecordOperation(inp.value[1].type, inp.value[1].sobject,
                                           inp.value[1].data, inp.value[1].recordId) >>]
    ELSE [route |-> "thrown", ops |-> inp.value]

\* execute up to the call of executeSingleOperation or of
\* executeMultipleOperations, or to its throw.
Execute ==
    /\ route = "undecided"
    /\ pc = "start"
    /\ LET r == execute(input)
       IN  /\ route' = r.route
           /\ ops' = r.ops
           /\ IF r.route = "thrown"
              THEN /\ pc' = "returned"
                   /\ result' = Threw("Invalid operation input format")
              ELSE UNCHANGED <<pc, result>>
    /\ UNCHANGED <<input, cacheVars, apartVars>>
    /\ UNCHANGED <<graph, circular, breakPoints, level, changed, plan, batchIdx,
                   promise, collected, idMap, results, errors, remote>>

\* The inputs of execute: single operations as objects, arrays of up to
\* MaxArray operations, and an input of neither shape.
ExecuteInputs ==
    {ObjectInput(SingleRecordOperation(type, "Account", SingleData(name, Absent, parentId),
                                       recordId)) :
        type \in OperationTypes, name \in {Absent, Str("Acme")},
        parentId \in {Absent, Str(TempIdOf(1))}, recordId \in {undefined, ExistingId}}
    \cup UNION {{ArrayInput(ExecBatch(n, parent, variant)) :
                    parent \in [1..n -> 0..n], variant \in Variants} : n \in 1..MaxArray}
    \cup {ArrayInput(<< >>), OtherInput}

InitExecute ==
    /\ CacheIdle
    /\ ApartIdle
    /\ \E inp \in ExecuteInputs :
           /\ input = inp
           /\ InitState("undecided", inp.value)

NextExecute ==
    \/ Execute
    \/ Analyze
    \/ LevelPass
    \/ GeneratePlan
    \/ Dispatch
    \/ \E n \in Nodes(ops), outcome \in Outcomes : Respond(n, outcome)
    \/ CollectParallel
    \/ CollectSequential
    \/ Return
    \/ SingleStart
    \/ \E outcome \in Outcomes : SingleRespond(outcome)

SpecExecute == InitExecute /\ [][NextExecute]_vars

----------------------------------------------------------------------------
(* The MetadataCacheManager on its own: its calls in any order, while time *)
(* passes.                                                                 *)

\* The half seconds the clock runs through.
MaxHalfSeconds == 2

\* Deepest expansion asked of ensureMetadataWithRelationships.
MaxDepth == 1

HalfSecond == MsPerSecond \div 2

\* The clock stops at the half seconds and one millisecond to either side.
Instants ==
    {t \in 0..(MaxHalfSeconds * HalfSecond + 1) :
        t % HalfSecond \in {0, 1, HalfSecond - 1}}

\* setTTL(1000) of the cache manager test, and the default
TTLs == {MsPerSecond, DEFAULT_TTL_MS}

\* The process runs in UTC or one hour east of it.
TimeZones == {0, 60 * 60 * MsPerSecond}

ObjectLists ==
    {<< >>, <<"Account">>, <<"Contact">>, <<"Account", "Contact">>,
     <<"Contact", "Account">>}

Depths == 0..MaxDepth

\* identity() fails, or it answers and at most one describe is rejected
Orgs ==
    {Weather(FALSE, {})}
    \cup {Weather(TRUE, failing) : failing \in {{}, {"Account"}, {"Contact"}}}

execVars == <<route, ops, pc, graph, circular, breakPoints, level, changed, plan,
              batchIdx, promise, collected, idMap, results, errors, remote, result,
              input, apartVars>>

\* the names of the list for which isCached answers true now
cachedAmong(objects) ==
    {name \in Range(objects) : isCached(sobjects, name, ttl, now, zone)}

Initialize ==
    /\ \E org \in Orgs :
         LET r == initialize(Store(sobjects, relationships), ttl, now, zone, org)
         IN  /\ sobjects' = r.db.sobjects
             /\ relationships' = r.db.relationships
             /\ lastCall' = Call("initialize", CORE_OBJECTS, 0, cachedAmong(CORE_OBJECTS),
                                 r.missing, org.failing, r.threw)
    /\ UNCHANGED <<now, ttl, zone>>
    /\ UNCHANGED execVars

EnsureMetadata(objects) ==
    /\ \E org \in Orgs :
         LET r == ensureMetadata(Store(sobjects, relationships), objects, ttl, now, zone,
                                 org)
         IN  /\ sobjects' = r.db.sobjects
             /\ relationships' = r.db.relationships
             /\ lastCall' = Call("ensureMetadata", objects, 0, cachedAmong(objects),
                                 r.missing, org.failing, r.threw)
    /\ UNCHANGED <<now, ttl, zone>>
    /\ UNCHANGED execVars

EnsureMetadataWithRelationships(sobject, depth) ==
    /\ \E org \in Orgs :
         LET r == ensureMetadataWithRelationships(Store(sobjects, relationships), sobject,
                                                  depth, ttl, now, zone, org)
         IN  /\ sobjects' = r.db.sobjects
             /\ relationships' = r.db.relationships
             /\ lastCall' = Call("ensureMetadataWithRelationships", << sobject >>, depth,
                                 cachedAmong(<< sobject >>), << >>, org.failing, r.threw)
    /\ UNCHANGED <<now, ttl, zone>>
    /\ UNCHANGED execVars

RefreshMetadata(objects) ==
    /\ \E org \in Orgs :
         LET r == refreshMetadata(Store(sobjects, relationships), objects, now, org)
         IN  /\ sobjects' = r.db.sobjects
             /\ relationships' = r.db.relationships
             /\ lastCall' = Call("refreshMetadata", objects, 0, cachedAmong(objects),
                                 objects, org.failing, r.threw)
    /\ UNCHANGED <<now, ttl, zone>>
    /\ UNCHANGED execVars

ClearCache ==
    /\ sobjects' = clearMetadata(Store(sobjects, relationships)).sobjects
    /\ relationships' = clearMetadata(Store(sobjects, relationships)).relationships
    /\ lastCall' = Call("clearCache", << >>, 0, {}, << >>, {}, FALSE)
    /\ UNCHANGED <<now, ttl, zone>>
    /\ UNCHANGED execVars

SetTTL(ttlMs) ==
    /\ ttl' = ttlMs
    /\ lastCall' = Call("setTTL", << >>, 0, {}, << >>, {}, FALSE)
    /\ UNCHANGED <<now, sobjects, relationships, zone>>
    /\ UNCHANGED execVars

\* Time passes between two calls.
Tick ==
    /\ \E t \in Instants : t > now /\ now' = t
    /\ lastCall' = NoCall
    /\ UNCHANGED <<ttl, sobjects, relationships, zone>>
    /\ UNCHANGED execVars

\* A cache manager constructed with one of the TTLs over an empty store.
InitCache ==
    /\ input = NoInput
    /\ ApartIdle
    /\ InitState("none", << >>)
    /\ now = 0
    /\ ttl \in TTLs
    /\ sobjects = [name \in Entities |-> NoRow]
    /\ relationships = {}
    /\ zone \in TimeZones
    /\ lastCall = NoCall

NextCache ==
    \/ Initialize
    \/ \E objects \in ObjectLists : EnsureMetadata(objects)
    \/ \E sobject \in Entities, depth \in Depths :
           EnsureMetadataWithRelationships(sobject, depth)
    \/ \E objects \in ObjectLists : RefreshMetadata(objects)
    \/ ClearCache
    \/ \E ttlMs \in TTLs : SetTTL(ttlMs)
    \/ Tick

SpecCache == InitCache /\ [][NextCache]_vars


----------------------------------------------------------------------------
(* Two calls of executeWithDependencies that overlap on one resolver.      *)

\* Largest batch of a call that overlaps another.
MaxCallOps == 2

Callers == 1..2

\* calculateNodeLevels: `while (changed)` run to its end
RECURSIVE calculateNodeLevels(_, _, _)
calculateNodeLevels(edges, bps, lv) ==
    LET r == levelPass(edges, bps, lv)
    IN  IF r.changed THEN calculateNodeLevels(edges, bps, r.level) ELSE r.level

\* What one call holds: its argument, and the locals of executePlan
\* (results, errors, idMap are created anew by every call of executePlan).
Locals(operations) ==
    [ops |-> operations, pc |-> "start", plan |-> << >>, batchIdx |-> 0,
     promise |-> [n \in Nodes(operations) |-> None], collected |-> {},
     idMap |-> << >>, results |-> << >>, errors |-> << >>, result |-> NoResult]

\* idMap as a field of the resolver, which every call reads and writes
idMapOf_shared(cs, c) == cs[1].idMap @@ cs[2].idMap

\* const idMap = new Map<string, string>() in executePlan: the map a call reads
idMapOf(cs, c) == cs[c].idMap

\* Steps 0 to 3 of one call: graph, cycles, break points, levels and plan
\* are built from the operations of that call alone.
CallAnalyze(c) ==
    /\ calls[c].pc = "start"
    /\ \E syncOk \in BOOLEAN :
         IF syncOk
         THEN LET operations == calls[c].ops
                  edges == buildDependencyGraph(operations)
                  cycles == detectCircularDependencies(edges, Len(operations))
                  bps == identifyCircularBreakPoints(operations, edges, cycles)
                  lv == calculateNodeLevels(edges, bps, [n \in Nodes(operations) |-> 0])
                  batches == generateExecutionPlan(operations, bps, lv)
              IN  calls' = [calls EXCEPT ![c].plan = batches, ![c].batchIdx = 1,
                                         ![c].pc = "executing",
                                         ![c].result.executionPlan = batches]
         ELSE calls' = [calls EXCEPT ![c].pc = "returned",
                                     ![c].result = analysisFailed(@, "sync failed")]
    /\ UNCHANGED ledger
    /\ UNCHANGED <<singleVars, cacheVars, matcher, validator>>

\* The calls of executeOperation one call makes for its current batch.
CallDispatch(c) ==
    /\ calls[c].pc = "executing"
    /\ calls[c].batchIdx <= Len(calls[c].plan)
    /\ LET me == calls[c]
           batch == me.plan[me.batchIdx]
           start == toStart(batch, me.promise)
           out(n) == executeOperation(me.ops[n], idMapOf(calls, c))
       IN  /\ start # << >>
           /\ \A n \in Range(batch.nodeIds) : me.promise[n].state = "none" \/ n \in me.collected
           /\ \A n \in Range(start) : me.promise[n].state = "none"
           /\ calls' = [calls EXCEPT ![c].promise =
                          [n \in DOMAIN me.promise |->
                              IF n \notin Range(start) THEN me.promise[n]
                              ELSE IF out(n).threw THEN Rejected(out(n).message)
                              ELSE Pending]]
           /\ ledger' = ledger \o
                  flatMap(start,
                          LAMBDA n : IF out(n).threw THEN << >>
                                     ELSE << [call |-> c, node |-> n,
                                              method |-> out(n).method,
                                              data |-> out(n).data,
                                              answer |-> "pending"] >>)
    /\ UNCHANGED <<singleVars, cacheVars, matcher, validator>>

\* The Remote Data Service answers the k-th request it received; the record
\* it creates gets an id no other record has.
CallRespond(k, outcome) ==
    /\ k \in 1..Len(ledger)
    /\ ledger[k].answer = "pending"
    /\ LET c == ledger[k].call
           n == ledger[k].node
           operation == calls[c].ops[n]
       IN  /\ calls[c].pc = "executing"
           /\ calls' = [calls EXCEPT ![c].promise[n] =
                 CASE outcome = "saved" ->
                        Fulfilled(OperationResult(operation, TRUE, savedId(operation, k)))
                   [] outcome = "refused" ->
                        Fulfilled(OperationResult(operation, FALSE, undefined))
                   [] OTHER -> Rejected("Failed to " \o operation.type \o " record")]
    /\ ledger' = [ledger EXCEPT ![k].answer = outcome]
    /\ UNCHANGED <<singleVars, cacheVars, matcher, validator>>

\* The loop over the settled results of a parallel batch of one call.
collectSettledOf(me, batch) ==
    LET step[k \in 0..Len(batch.nodeIds)] ==
            IF k = 0 THEN me
            ELSE LET n == batch.nodeIds[k]
                     prev == step[k - 1]
                 IN  CASE me.promise[n].state = "fulfilled" ->
                            [prev EXCEPT
                                !.results = Append(@, me.promise[n].value),
                                !.idMap = idMapSet(@, me.ops[n], me.promise[n].value)]
                       [] me.promise[n].state = "rejected" ->
                            [prev EXCEPT
                                !.errors = Append(@, ExecutionError(me.promise[n].reason,
                                                                    "execution", n))]
                       [] OTHER -> prev
    IN  step[Len(batch.nodeIds)]

\* Promise.allSettled of one call has resolved.
CallCollectParallel(c) ==
    /\ calls[c].pc = "executing"
    /\ calls[c].batchIdx <= Len(calls[c].plan)
    /\ LET me == calls[c]
           batch == me.plan[me.batchIdx]
       IN  /\ isParallel(batch)
           /\ \A n \in Range(batch.nodeIds) : me.promise[n].state # "none"
           /\ allSettled(batch, me.promise)
           /\ calls' = [calls EXCEPT ![c] =
                 [collectSettledOf(me, batch) EXCEPT
                     !.collected = @ \cup Range(batch.nodeIds),
                     !.batchIdx = @ + 1]]
    /\ UNCHANGED ledger
    /\ UNCHANGED <<singleVars, cacheVars, matcher, validator>>

\* The awaited call of a sequential batch of one call has settled.
CallCollectSequential(c) ==
    /\ calls[c].pc = "executing"
    /\ calls[c].batchIdx <= Len(calls[c].plan)
    /\ LET me == calls[c]
           batch == me.plan[me.batchIdx]
       IN  /\ ~isParallel(batch)
           /\ \E n \in Range(batch.nodeIds) \ me.collected :
                /\ me.promise[n].state \in {"fulfilled", "rejected"}
                /\ IF me.promise[n].state = "fulfilled"
                   THEN calls' = [calls EXCEPT
                           ![c].collected = @ \cup {n},
                           ![c].results = Append(@, me.promise[n].value),
                           ![c].idMap = idMapSet(@, me.ops[n], me.promise[n].value),
                           ![c].batchIdx = IF toStart(batch, me.promise) = << >>
                                           THEN @ + 1 ELSE @]
                   ELSE LET es == Append(me.errors,
                                         ExecutionError(me.promise[n].reason,
                                                        "execution", n))
                        IN  calls' = [calls EXCEPT
                                ![c].collected = @ \cup {n},
                                ![c].errors = es,
                                ![c].result = executed(@, planAborted(me.results, es,
                                                             me.promise[n].reason)),
                                ![c].pc = "returned"]
    /\ UNCHANGED ledger
    /\ UNCHANGED <<singleVars, cacheVars, matcher, validator>>

\* Every batch of one call is done.
CallReturn(c) ==
    /\ calls[c].pc = "executing"
    /\ calls[c].batchIdx > Len(calls[c].plan)
    /\ calls' = [calls EXCEPT ![c].result = executed(@, planDone(calls[c].results,
                                                                  calls[c].errors)),
                              ![c].pc = "returned"]
    /\ UNCHANGED ledger
    /\ UNCHANGED <<singleVars, cacheVars, matcher, validator>>

\* The batches of a call that overlaps another: creations of accounts, each
\* without a parent, with a parent created earlier in the same batch, or
\* with a reference to a temporary id its own batch does not define.  Both
\* callers name their records @1, @2, ...
CallBatches ==
    UNION {{[i \in 1..n |-> PlainOp(i, parent[i])] :
                parent \in {p \in [1..n -> 0..MaxCallOps] :
                               \A i \in 1..n : p[i] < i \/ p[i] > n}} :
           n \in 1..MaxCallOps}

InitOverlap ==
    /\ input = NoInput
    /\ InitState("none", << >>)
    /\ CacheIdle
    /\ calls \in [Callers -> {Locals(b) : b \in CallBatches}]
    /\ ledger = << >>
    /\ matcher = MatcherIdle
    /\ validator = ValidatorIdle

NextOverlap ==
    \/ \E c \in Callers : CallAnalyze(c)
    \/ \E c \in Callers : CallDispatch(c)
    \/ \E k \in 1..(2 * MaxCallOps), outcome \in Outcomes : CallRespond(k, outcome)
    \/ \E c \in Callers : CallCollectParallel(c)
    \/ \E c \in Callers : CallCollectSequential(c)
    \/ \E c \in Callers : CallReturn(c)

SpecOverlap == InitOverlap /\ [][NextOverlap]_vars

----------------------------------------------------------------------------
(* SmartMatcher: findMatches, findDuplicates, and checkDuplicates above it. *)

\* Scores are counted in millionths, the answers of the four matchers in
\* ten-thousandths, and weights in hundredths.
One == 1000000
HIGH_THRESHOLD == 950000
MEDIUM_THRESHOLD == 750000

SimilarityWeights(l, j, t, s) ==
    [levenshtein |-> l, jaroWinkler |-> j, trigram |-> t, soundex |-> s]

\* CompositeSimilarityMatcher.defaultWeights: 0.3, 0.4, 0.2, 0.1
defaultWeights == SimilarityWeights(30, 40, 20, 10)

\* value.toLowerCase() for the strings of the model
toLowerCase(value) ==
    CASE value = "" -> ""
      [] value = "acme inc" -> "acme inc"
      [] value = "Acme Incorporated" -> "acme incorporated"
      [] value = "Acme Inc" -> "acme inc"
      [] value = "Acne Inc" -> "acne inc"
      [] value = "Zeta" -> "zeta"

\* normalizeForField(value, 'Name'): normalizeCompanyName lowers the case
\* and writes every business suffix in its short form
normalizeForField(value) ==
    CASE value = "" -> ""
      [] value = "Acme Incorporated" -> "acme inc"
      [] OTHER -> toLowerCase(value)

\* The answers of LevenshteinMatcher, JaroWinklerMatcher, TrigramMatcher and
\* SoundexMatcher for two normalized strings.
matcherScores(str1, str2) ==
    CASE str1 = "" \/ str2 = "" -> SimilarityWeights(0, 0, 0, 0)
      [] str1 = str2 -> SimilarityWeights(10000, 10000, 10000, 10000)
      [] {str1, str2} = {"acme inc", "acne inc"} ->
             SimilarityWeights(8750, 9333, 7000, 10000)
      [] {str1, str2} = {"acme inc", "zeta"} ->
             SimilarityWeights(1250, 4167, 0, 0)

\* CompositeSimilarityMatcher.similarity(str1, str2, weights).score, with
\* w = { ...defaultWeights, ...weights }
similarity(str1, str2, weights) ==
    LET w == [k \in DOMAIN defaultWeights |->
                 IF k \in DOMAIN weights THEN weights[k] ELSE defaultWeights[k]]
        scores == matcherScores(str1, str2)
    IN  scores.levenshtein * w.levenshtein + scores.jaroWinkler * w.jaroWinkler
        + scores.trigram * w.trigram + scores.soundex * w.soundex

SearchConfig(minConfidence, similarityWeights, limit) ==
    [minConfidence |-> minConfidence, similarityWeights |-> similarityWeights,
     limit |-> limit]

\* the five patterns, in the order executeSoslQueries issues them
Patterns == <<"exact", "prefix", "wildcard", "fuzzy", "normalized">>

\* Query 5 is issued only if normalizing changed the term.
patternsFor(searchTerm) ==
    IF normalizeForField(searchTerm) # toLowerCase(searchTerm) THEN Patterns
    ELSE SubSeq(Patterns, 1, 4)

\* What conn.search does with one query: it is rejected, or it resolves with
\* some records.
Failed == [ok |-> FALSE, searchRecords |-> << >>]
Resolved(searchRecords) == [ok |-> TRUE, searchRecords |-> searchRecords]

\* soslExactMatch .. soslFuzzyMatch without their own try/catch
soslMatch_rethrow(answer) ==
    IF ~answer.ok THEN [threw |-> TRUE, records |-> << >>]
    ELSE [threw |-> FALSE, records |-> answer.searchRecords]

\* soslExactMatch, soslPrefixMatch, soslWildcardMatch, soslFuzzyMatch: the
\* records of the answer, and [] when the search is rejected
soslMatch(answer) ==
    IF ~answer.ok THEN [threw |-> FALSE, records |-> << >>]
    ELSE [threw |-> FALSE, records |-> answer.searchRecords]

\* records.forEach(r => ...): allResults after the records of one pattern
RECURSIVE collect(_, _, _)
collect(all, records, pattern) ==
    IF records = << >> THEN all
    ELSE LET r == records[1]
             at == findFirst([k \in 1..Len(all) |-> k], LAMBDA k : all[k].record.Id = r.Id)
         IN  collect(IF at # << >>
                     THEN [all EXCEPT ![at[1]].matchedBy = Append(@, pattern)]
                     ELSE Append(all, [record |-> r, matchedBy |-> << pattern >>]),
                     Tail(records), pattern)

MatchResult(record, confidence, score, matchedBy) ==
    [record |-> record, confidence |-> confidence, score |-> score,
     matchedBy |-> matchedBy]

\* scoreResults for one record: similarity, boost of 5% per further pattern
\* (capped at 1.0 where a boost applies), confidence
scoreResult(entry, normalizedInput, config) ==
    LET base == similarity(normalizedInput, normalizeForField(entry.record.Name),
                           config.similarityWeights)
        boosted == base + (Len(entry.matchedBy) - 1) * 50000
        boostedScore == IF Len(entry.matchedBy) > 1
                        THEN (IF boosted > One THEN One ELSE boosted)
                        ELSE base
        confidence == IF boostedScore >= HIGH_THRESHOLD THEN "HIGH"
                      ELSE IF boostedScore >= MEDIUM_THRESHOLD THEN "MEDIUM"
                      ELSE "LOW"
    IN  MatchResult(entry.record, confidence, boostedScore, entry.matchedBy)

scoreResults(all, normalizedInput, config) ==
    [k \in 1..Len(all) |-> scoreResult(all[k], normalizedInput, config)]

\* scoredResults.sort((a, b) => b.score - a.score): highest first, stable
RECURSIVE sortByScore(_)
sortByScore(rs) ==
    IF rs = << >> THEN << >>
    ELSE LET rest == sortByScore(Tail(rs))
             before == SelectSeq(rest, LAMBDA r : r.score > rs[1].score)
             after == SelectSeq(rest, LAMBDA r : r.score <= rs[1].score)
         IN  before \o << rs[1] >> \o after

\* .slice(0, limit)
slice(rs, limit) == SubSeq(rs, 1, IF limit < Len(rs) THEN limit ELSE Len(rs))

confidenceOrder == [HIGH |-> 3, MEDIUM |-> 2, LOW |-> 1]

filterByConfidence(rs, minConfidence) ==
    SelectSeq(rs, LAMBDA r : confidenceOrder[r.confidence] >= confidenceOrder[minConfidence])

\* findMatches after executeSoslQueries has returned
findMatches(all, searchTerm, config) ==
    LET sortedResults == slice(sortByScore(scoreResults(all, normalizeForField(searchTerm),
                                                        config)),
                               config.limit)
    IN  IF config.minConfidence # undefined
        THEN filterByConfidence(sortedResults, config.minConfidence)
        ELSE sortedResults

\* findDuplicates: { ...config, minConfidence: MatchConfidence.MEDIUM }
findDuplicatesConfig(config) == [config EXCEPT !.minConfidence = "MEDIUM"]

\* checkDuplicates: limit: options?.limit || 10,
\* minConfidence: options?.minConfidence || MatchConfidence.MEDIUM
checkDuplicatesConfig(options) ==
    SearchConfig(IF options.minConfidence = undefined THEN "MEDIUM"
                 ELSE options.minConfidence,
                 << >>,
                 IF options.limit = 0 THEN 10 ELSE options.limit)

\* A call of the matcher: who is called, with which term (data[config.field]
\* for the duplicate checks, absent when the payload lacks the field) and
\* which configuration.
Asked(op, searchTerm, config) ==
    [pc |-> "called", op |-> op, searchTerm |-> searchTerm, config |-> config,
     effective |-> config, issued |-> << >>, failed |-> {}, answered |-> << >>,
     all |-> << >>, result |-> << >>]

\* The records of the org the searches may return.
Candidates ==
    <<[Id |-> "a1", Name |-> "Acme Inc"], [Id |-> "a2", Name |-> "Acne Inc"],
      [Id |-> "a3", Name |-> "Zeta"]>>

\* What the org may answer to one pattern.
Answers ==
    {Failed, Resolved(<< >>), Resolved(SubSeq(Candidates, 1, 1)),
     Resolved(SubSeq(Candidates, 2, 3))}

\* Entry of findMatches, findDuplicates or checkDuplicates, up to the first
\* search; the duplicate checks return [] for a payload without the field.
EnterMatcher ==
    /\ matcher.pc = "called"
    /\ matcher' =
         IF matcher.op # "findMatches" /\ matcher.searchTerm \in {undefined, "absent"}
         THEN [matcher EXCEPT !.pc = "returned"]
         ELSE [matcher EXCEPT
                 !.pc = "searching",
                 !.effective =
                     CASE matcher.op = "findMatches" -> matcher.config
                       [] matcher.op = "findDuplicates" -> findDuplicatesConfig(matcher.config)
                       [] OTHER -> findDuplicatesConfig(checkDuplicatesConfig(matcher.config))]
    /\ UNCHANGED <<singleVars, cacheVars, calls, ledger, validator>>

\* executeSoslQueries: the next pattern is sent and answered.  An error that
\* leaves the pattern's own try/catch ends the queries (outer catch).
SearchPattern(answer) ==
    /\ matcher.pc = "searching"
    /\ Len(matcher.issued) < Len(patternsFor(matcher.searchTerm))
    /\ LET pattern == patternsFor(matcher.searchTerm)[Len(matcher.issued) + 1]
           got == soslMatch(answer)
       IN  matcher' = [matcher EXCEPT
                       !.issued = IF got.threw THEN patternsFor(matcher.searchTerm)
                                  ELSE Append(@, pattern),
                       !.failed = IF ~answer.ok THEN @ \cup {pattern} ELSE @,
                       !.answered = Append(@, [pattern |-> pattern, answer |-> answer]),
                       !.all = collect(@, got.records, pattern)]
    /\ UNCHANGED <<singleVars, cacheVars, calls, ledger, validator>>

\* Every pattern has been tried: score, sort, cut, filter, return.
ReturnMatches ==
    /\ matcher.pc = "searching"
    /\ Len(matcher.issued) = Len(patternsFor(matcher.searchTerm))
    /\ matcher' = [matcher EXCEPT
                   !.pc = "returned",
                   !.result = findMatches(matcher.all, matcher.searchTerm, matcher.effective)]
    /\ UNCHANGED <<singleVars, cacheVars, calls, ledger, validator>>

SearchTerms == {"", "acme inc", "Acme Incorporated"}

\* Weights a caller may pass: none, two of the four, a negative one.
CallerWeights ==
    {<< >>, [k \in {"levenshtein", "jaroWinkler"} |-> 100], [k \in {"soundex"} |-> 0 - 100]}

SearchConfigs ==
    {SearchConfig(minConfidence, << >>, 10) :
        minConfidence \in {undefined, "LOW", "MEDIUM", "HIGH"}}
    \cup {SearchConfig(undefined, weights, 10) : weights \in CallerWeights}
    \cup {SearchConfig(undefined, << >>, 1)}

\* options of checkDuplicates; limit 0 stands for no limit given
DuplicateCheckOptions ==
    {[minConfidence |-> minConfidence, limit |-> 0] :
        minConfidence \in {undefined, "LOW", "MEDIUM", "HIGH"}}

InitMatch ==
    /\ input = NoInput
    /\ InitState("none", << >>)
    /\ CacheIdle
    /\ calls = << >>
    /\ ledger = << >>
    /\ validator = ValidatorIdle
    /\ matcher \in {Asked("findMatches", term, config) :
                     term \in SearchTerms, config \in SearchConfigs}
           \cup {Asked("findDuplicates", term, config) :
                     term \in SearchTerms \cup {"absent"}, config \in SearchConfigs}
           \cup {Asked("checkDuplicates", term, options) :
                     term \in SearchTerms \cup {"absent"},
                     options \in DuplicateCheckOptions}

NextMatch ==
    \/ EnterMatcher
    \/ \E answer \in Answers : SearchPattern(answer)
    \/ ReturnMatches

SpecMatch == InitMatch /\ [][NextMatch]_vars

----------------------------------------------------------------------------
(* PreflightValidator called on its own.                                   *)

\* The payloads handed to the validator: those of the single operations,
\* with a null parent or a key the metadata does not know added to some.
ValidatorData ==
    LET plain == {SingleData(name, industry, parentId) :
                     name \in NameValues, industry \in IndustryValues,
                     parentId \in ParentIdValues \cup {Null}}
    IN  plain \cup {with(data, "Nickname", Str("Ac")) : data \in plain}

Validating(op, sobjectName, data) ==
    [pc |-> "called", op |-> op, sobject |-> sobjectName, data |-> data]

\* validateCreate(sobjectName, data) returns.
ValidateCreate ==
    /\ validator.pc = "called"
    /\ validator.op = "create"
    /\ validator' = [pc |-> "returned", op |-> validator.op,
                     sobject |-> validator.sobject, data |-> validator.data,
                     result |-> validateCreate(validator.sobject, validator.data)]
    /\ UNCHANGED <<singleVars, cacheVars, calls, ledger, matcher>>

\* validateUpdate(sobjectName, recordId, data) returns.
ValidateUpdate ==
    /\ validator.pc = "called"
    /\ validator.op = "update"
    /\ validator' = [pc |-> "returned", op |-> validator.op,
                     sobject |-> validator.sobject, data |-> validator.data,
                     result |-> validateUpdate(validator.sobject, ExistingId,
                                               validator.data)]
    /\ UNCHANGED <<singleVars, cacheVars, calls, ledger, matcher>>

InitValidate ==
    /\ input = NoInput
    /\ InitState("none", << >>)
    /\ CacheIdle
    /\ calls = << >>
    /\ ledger = << >>
    /\ matcher = MatcherIdle
    /\ validator \in {Validating(op, sobjectName, data) :
                         op \in {"create", "update"}, sobjectName \in SObjectNames,
                         data \in ValidatorData}

NextValidate ==
    \/ ValidateCreate
    \/ ValidateUpdate

SpecValidate == InitValidate /\ [][NextValidate]_vars

----------------------------------------------------------------------------
(* OperationOrchestrator.executeMultipleOperations: the aggregation.       *)

\* The MultiOperationResult built from what executeWithDependencies returned
\* (the resolver catches its own errors, so the catch block of the
\* orchestrator is left to a failure of ensureMetadata).
executeMultipleOperations(operations, resolverResult) ==
    [success |-> resolverResult.success,
     totalOperations |-> Len(operations),
     successfulOperations |->
         Len(SelectSeq(resolverResult.operations, LAMBDA op : op.success)),
     failedOperations |->
         Len(SelectSeq(resolverResult.operations, LAMBDA op : ~op.success)),
     createdRecords |->
         SelectSeq(resolverResult.operations,
                   LAMBDA op : op.success /\ op.id # undefined),
     errors |-> [k \in 1..Len(resolverResult.errors) |->
                   resolverResult.errors[k].message],
     executionPlan |-> resolverResult.executionPlan]

----------------------------------------------------------------------------
(* Properties of the execution.                                            *)

\* executeOperation has been called for the n-th operation
started(n) == promise[n].state # "none"

\* the call has come back, with a result or with an error
settled(n) == promise[n].state \in {"fulfilled", "rejected"}

\* a request for the n-th operation has reached the Remote Data Service
submitted(n) == \E k \in 1..Len(remote) : remote[k].node = n

\* C1: the batches of the plan are in ascending level order and are worked
\* through in that order: no operation is started, let alone sent to the
\* Remote Data Service, before every operation of every earlier batch has
\* settled; and the request of an operation that references another one
\* follows the request of that one, which has been answered with a result.
C1_AscendingLevelOrder ==
    (route = "multi" /\ pc \in {"executing", "returned"}) =>
        /\ \A a, b \in 1..Len(plan) : a < b => plan[a].level < plan[b].level
        /\ \A a, b \in 1..Len(plan) : a < b =>
              \A m \in Range(plan[a].nodeIds), n \in Range(plan[b].nodeIds) :
                  started(n) => settled(m)
        /\ \A k \in 1..Len(remote) : \A e \in Range(graph) :
              e.to = remote[k].node =>
                  /\ promise[e.from].state = "fulfilled"
                  /\ \E j \in 1..(k - 1) : remote[j].node = e.from

\* A child at level 1 has been sent while two operations sit at level 0.
C1_Witness ==
    /\ route = "multi"
    /\ \E k \in 1..Len(remote) : level[remote[k].node] = 1
    /\ Cardinality({m \in Nodes(ops) : level[m] = 0}) = 2

\* C2: every create or update that reaches the Remote Data Service carries
\* the keys of the operation's payload; a key that held the temporary id of
\* an operation holds the id returned for that operation, every other key
\* holds the value the caller gave.
C2_ReferenceSubstituted ==
    \A k \in 1..Len(remote) :
        LET r == remote[k]
            op == ops[r.node]
        IN  r.method \in {"create", "update"} =>
              /\ DOMAIN r.data = DOMAIN op.data
              /\ \A f \in DOMAIN op.data :
                    IF isTempRef(op.data[f])
                    THEN \E a \in Nodes(ops) :
                            /\ ops[a].tempId = op.data[f].v
                            /\ promise[a].state = "fulfilled"
                            /\ promise[a].value.id = savedId(ops[a], a)
                            /\ r.data[f] = Str(promise[a].value.id)
                    ELSE r.data[f] = op.data[f]

\* A create whose ParentId named another operation has been sent.
C2_Witness ==
    \E k \in 1..Len(remote) :
        /\ remote[k].method = "create"
        /\ "ParentId" \in DOMAIN ops[remote[k].node].data
        /\ isTempRef(ops[remote[k].node].data["ParentId"])

FatalTypes ==
    {"METADATA_NOT_FOUND", "CRUD_PERMISSION", "REQUIRED_FIELD", "TYPE_MISMATCH",
     "LENGTH_EXCEEDED", "INVALID_PICKLIST_VALUE", "REQUIRED_RELATIONSHIP"}

\* the fatal findings of the preflight validation of a payload
fatal(operation, data) ==
    SelectSeq(preflight([operation EXCEPT !.data = data]).errors,
              LAMBDA e : e.type \in FatalTypes)

\* C3: no request that reaches the Remote Data Service carries a payload with
\* a fatal preflight finding, and an operation whose payload has one is never
\* sent, on either path; the single path returns the findings as its errors,
\* the multi path returns an error recorded for the operation.
C3_FatalNeverSubmitted ==
    /\ \A k \in 1..Len(remote) : fatal(ops[remote[k].node], remote[k].data) = << >>
    /\ \A n \in Nodes(ops) :
          /\ submitted(n) => fatal(ops[n], ops[n].data) = << >>
          /\ (route = "single" /\ pc = "returned" /\ fatal(ops[n], ops[n].data) # << >>) =>
                /\ ~result.success
                /\ \/ result.errors = messages(fatal(ops[n], ops[n].data))
                   \/ result.errors = <<"sync failed">>
          /\ (route = "multi" /\ n \in collected /\ fatal(ops[n], ops[n].data) # << >>) =>
                /\ \E k \in 1..Len(errors) : errors[k].operation = n
                /\ pc = "returned" =>
                      /\ ~result.success
                      /\ \E k \in 1..Len(result.errors) : result.errors[k].operation = n

\* A batch has returned in which one operation was stopped by a fatal finding
\* while another one was sent.
C3_Witness ==
    /\ route = "multi"
    /\ pc = "returned"
    /\ remote # << >>
    /\ \E n \in collected :
          /\ fatal(ops[n], ops[n].data) # << >>
          /\ promise[n] = Rejected("Pre-flight validation failed")

\* C4: when executeOperation is called for an operation whose payload holds a
\* temporary reference the id map lacks, the call fails and nothing is sent
\* for the operation; when the failure is consumed, an execution error naming
\* the operation is recorded.
C4_UnresolvedFails ==
    [][\A n \in Nodes(ops) :
          /\ (/\ route = "multi"
              /\ ~started(n)
              /\ promise'[n].state # "none"
              /\ \E f \in DOMAIN ops[n].data :
                    isTempRef(ops[n].data[f]) /\ ops[n].data[f].v \notin DOMAIN idMap)
             => /\ promise'[n] = Rejected("Cannot resolve reference")
                /\ \A k \in 1..Len(remote') : remote'[k].node # n
          /\ (/\ promise[n] = Rejected("Cannot resolve reference")
              /\ n \notin collected
              /\ n \in collected')
             => \E k \in 1..Len(errors') :
                   errors'[k] = ExecutionError("Cannot resolve reference", "execution", n)
      ]_vars

\* All three operations of a batch failed on a reference: one names a
\* temporary id no operation has, one names an operation that has not run,
\* one names an operation that failed.
C4_Witness ==
    /\ pc = "returned"
    /\ Len(ops) = 3
    /\ remote = << >>
    /\ \A n \in Nodes(ops) :
          /\ promise[n] = Rejected("Cannot resolve reference")
          /\ \E k \in 1..Len(result.errors) : result.errors[k].operation = n

\* C5: executeWithDependencies always comes to its return: as long as it has
\* not returned, it has a next step to take.
C5_Terminates == pc = "returned" \/ ENABLED Next

\* C6: in the execution plan no batch holds two operations of which one
\* references the temporary id of the other.
C6_NoEdgeWithinBatch ==
    pc = "executing" =>
        \A b \in 1..Len(plan) : \A e \in Range(graph) :
            e.from # e.to =>
                ~(e.from \in Range(plan[b].nodeIds) /\ e.to \in Range(plan[b].nodeIds))

\* chain[n]: the number of edges of the longest reference chain that ends at
\* n, over chains of at most N edges
longestChain(edges, N) ==
    LET depth[k \in 0..N] ==
            [n \in 1..N |->
                LET deps == {e.from : e \in {x \in Range(edges) : x.to = n}}
                IN  IF k = 0 \/ deps = {} THEN 0
                    ELSE 1 + (CHOOSE x \in {depth[k - 1][d] : d \in deps} :
                                 \A y \in {depth[k - 1][d] : d \in deps} : y <= x)]
    IN  depth[N]

\* no chain of N edges exists among N nodes unless the references form a cycle
acyclic(edges, N) == \A n \in 1..N : longestChain(edges, N)[n] < N

\* C7: for a batch without reference cycles, the plan has one batch per chain
\* length 0, 1, ..., each operation sits in the batch whose index is the
\* length of the longest chain of references leading to it, whatever the order
\* of the operations, and a batch is parallelizable iff it holds more than one.
C7_LongestChainLevels ==
    (route = "multi" /\ pc = "executing" /\ acyclic(graph, Len(ops))) =>
        LET chain == longestChain(graph, Len(ops))
        IN  /\ \A n \in Nodes(ops) :
                  /\ chain[n] + 1 \in 1..Len(plan)
                  /\ n \in Range(plan[chain[n] + 1].nodeIds)
            /\ \A b \in 1..Len(plan) :
                  /\ plan[b].level = b - 1
                  /\ plan[b].nodeIds # << >>
                  /\ plan[b].canParallelize = (Len(plan[b].nodeIds) > 1)
            /\ (Len(ops) = 2 /\ Len(graph) = 1 /\ graph[1].from # graph[1].to) =>
                  /\ Len(plan) = 2
                  /\ plan[1].nodeIds = << graph[1].from >>
                  /\ plan[2].nodeIds = << graph[1].to >>

\* One parent, listed last, and three children that reference it: two
\* batches, the second with the three children, parallelizable.
C7_Witness ==
    /\ pc = "executing"
    /\ Len(ops) = 4
    /\ Len(graph) = 3
    /\ \A k \in 1..3 : graph[k].from = 4
    /\ Len(plan) = 2
    /\ plan[1].nodeIds = <<4>>
    /\ plan[2].nodeIds = <<1, 2, 3>>
    /\ plan[2].canParallelize

\* C8: in a parallel batch all operations are started together, each one
\* that does not fail before its request is sent whatever its siblings do,
\* and once the batch is consumed every operation has its outcome on record:
\* its result in the results, or an execution error naming it in the errors.
C8_ParallelOutcomesRecorded ==
    (route = "multi" /\ pc \in {"executing", "returned"}) =>
        \A b \in 1..Len(plan) :
            isParallel(plan[b]) =>
                LET batch == Range(plan[b].nodeIds)
                IN  /\ (\E n \in batch : started(n)) => \A n \in batch : started(n)
                    /\ (batchIdx = b /\ pc = "executing") =>
                          \A n \in batch :
                              started(n) =>
                                  \/ submitted(n)
                                  \/ executeOperation(ops[n], idMap).threw
                    /\ batchIdx > b =>
                          \A n \in batch :
                              \/ /\ promise[n].state = "fulfilled"
                                 /\ \E k \in 1..Len(results) : results[k] = promise[n].value
                              \/ /\ promise[n].state = "rejected"
                                 /\ \E k \in 1..Len(errors) :
                                       errors[k] = ExecutionError(promise[n].reason,
                                                                  "execution", n)

\* A parallel batch has been consumed in which one operation failed and a
\* sibling, listed after it, was created.
C8_Witness ==
    /\ route = "multi"
    /\ \E b \in 1..Len(plan) :
          /\ isParallel(plan[b])
          /\ batchIdx > b
          /\ \E i, j \in 1..Len(plan[b].nodeIds) :
                /\ i < j
                /\ promise[plan[b].nodeIds[i]].state = "rejected"
                /\ promise[plan[b].nodeIds[j]].state = "fulfilled"
                /\ promise[plan[b].nodeIds[j]].value.success

\* C9: executeWithDependencies comes back with a result, never with an
\* exception: a failed analysis is in result.errors with phase analysis, a
\* failed operation with phase execution, success is false whenever there is
\* an error, and the result of every operation that came back before a
\* failure is in result.operations.
C9_FailuresReturned ==
    (route = "multi" /\ pc = "returned") =>
        /\ result.success <=> result.errors = << >>
        /\ plan = << >> =>
              /\ result.errors = << ExecutionError("sync failed", "analysis", 0) >>
              /\ result.operations = << >>
        /\ plan # << >> =>
              \A k \in 1..Len(result.errors) : result.errors[k].phase = "execution"
        /\ \A n \in collected :
              /\ promise[n].state = "fulfilled" =>
                    \E k \in 1..Len(result.operations) :
                        result.operations[k] = promise[n].value
              /\ promise[n].state = "rejected" =>
                    \E k \in 1..Len(result.errors) :
                        result.errors[k] = ExecutionError(promise[n].reason, "execution", n)

\* A sequential operation failed after an earlier batch had been created.
C9_Witness ==
    /\ route = "multi"
    /\ pc = "returned"
    /\ ~result.success
    /\ result.operations # << >>
    /\ \E k \in 1..Len(result.errors) : result.errors[k].operation = 0
    /\ \E n \in collected : promise[n].state = "fulfilled" /\ promise[n].value.success

\* C10: every entry tempId -> id of the id map belongs to an operation that
\* carries that temporary id, whose request was answered with success and
\* with that id; an operation that failed has no entry.
C10_IdMapOnlySuccesses ==
    /\ \A t \in DOMAIN idMap :
          \E n \in collected :
              /\ ops[n].tempId = t
              /\ submitted(n)
              /\ promise[n].state = "fulfilled"
              /\ promise[n].value.success
              /\ idMap[t] = promise[n].value.id
              /\ idMap[t] = savedId(ops[n], n)
    /\ \A n \in Nodes(ops) :
          (\/ promise[n].state = "rejected"
           \/ promise[n].state = "fulfilled" /\ ~promise[n].value.success)
          => ops[n].tempId \notin DOMAIN idMap

\* The id map has an entry while an operation with a temporary id was
\* refused by the Remote Data Service and consumed.
C10_Witness ==
    /\ idMap # << >>
    /\ \E n \in collected :
          /\ ops[n].tempId # undefined
          /\ promise[n].state = "fulfilled"
          /\ ~promise[n].value.success

\* The edges of the graph that close a recorded cycle: the node at position i
\* references the node at the next position, the last one the first.
cycleEdges(edges, cycle) ==
    {e \in Range(edges) :
        \E i \in 1..Len(cycle) :
            e.to = cycle[i] /\ e.from = cycle[(i % Len(cycle)) + 1]}

\* the field of the edge is a relationship of its target's entity that is
\* not required
nonRequired(operations, e) ==
    \E r \in Range(getRelationships(operations[e.to].sobject)) :
        r.field_name = e.field /\ ~r.is_required

\* C11: every detected cycle, of any length, that holds an edge on a
\* non-required relationship gets a break point with strategy
\* create-then-update, at the target node of such an edge of the cycle.
C11_CycleGetsBreakPoint ==
    (route = "multi" /\ pc # "start") =>
        \A c \in 1..Len(circular) :
            (\E e \in cycleEdges(graph, circular[c]) : nonRequired(ops, e)) =>
                \E b \in 1..Len(breakPoints) :
                    /\ breakPoints[b].strategy = "create-then-update"
                    /\ \E e \in cycleEdges(graph, circular[c]) :
                          /\ nonRequired(ops, e)
                          /\ breakPoints[b].nodeId = e.to
                          /\ breakPoints[b].field = e.field

\* the n-th operation is a create whose payload, the field of its break point
\* left out, holds no temporary reference and passes the checks of createRecord
creatableWithout(n, field) ==
    /\ ops[n].type = "create"
    /\ field \in DOMAIN ops[n].data
    /\ unresolved(without(ops[n].data, field), << >>) = << >>
    /\ ~createRecord(ops[n].sobject, without(ops[n].data, field)).threw

\* C12: a break-point operation that has been started is created with its
\* cyclic reference field left out or null, and once the id of the operation
\* it references is in the id map, an update of the created record that sets
\* the field has been issued.
C12_CreateThenUpdate ==
    (route = "multi" /\ pc = "returned") =>
        \A b \in 1..Len(breakPoints) :
            LET n     == breakPoints[b].nodeId
                field == breakPoints[b].field
            IN  (started(n) /\ creatableWithout(n, field)) =>
                    /\ \E k \in 1..Len(remote) :
                          /\ remote[k].node = n
                          /\ remote[k].method = "create"
                          /\ (field \in DOMAIN remote[k].data
                                 => remote[k].data[field] = Null)
                    /\ ops[n].data[field].v \in DOMAIN idMap =>
                          \E k \in 1..Len(remote) :
                              /\ remote[k].method = "update"
                              /\ field \in DOMAIN remote[k].data
                              /\ remote[k].data[field] = Str(idMap[ops[n].data[field].v])

\* Each node of the sequence references the next one and the last references
\* the first; the sequence read in the opposite direction is accepted too.
isCycle(edges, cycle) ==
    \/ \A i \in 1..Len(cycle) :
          \E e \in Range(edges) : e.to = cycle[i] /\ e.from = cycle[(i % Len(cycle)) + 1]
    \/ \A i \in 1..Len(cycle) :
          \E e \in Range(edges) : e.from = cycle[i] /\ e.to = cycle[(i % Len(cycle)) + 1]

\* C13: detectCircularDependencies records at least one cycle if and only if
\* the references form a cycle, and every node sequence it records is a cycle
\* of the graph.
C13_CyclesDetected ==
    (route = "multi" /\ pc # "start") =>
        /\ (circular # << >>) <=> ~acyclic(graph, Len(ops))
        /\ \A c \in 1..Len(circular) :
              circular[c] # << >> /\ isCycle(graph, circular[c])

\* C14: when executeWithDependencies returns without success, every record
\* that one of its operations created has been deleted again: the Remote Data
\* Service has received a delete of that record.
C14_FailureRolledBack ==
    (route = "multi" /\ pc = "returned" /\ ~result.success) =>
        \A n \in Nodes(ops) :
            (/\ ops[n].type = "create"
             /\ promise[n].state = "fulfilled"
             /\ promise[n].value.success) =>
                \E k \in 1..Len(remote) :
                    /\ remote[k].method = "delete"
                    /\ remote[k].id = promise[n].value.id

\* C15: execute chooses the path from the shape and the content of its input
\* alone: an object with type and sobject goes to the single-operation path;
\* an array goes to the multi-operation path when it holds more than one
\* operation or when some payload value is a string that starts with '@';
\* an array of one operation without such a value goes to the
\* single-operation path.  The path is the `type` of what execute returns.
C15_RoutedByShape ==
    (input.shape # "none" /\ route # "undecided") =>
        LET operations == input.value
            referring == \E i \in 1..Len(operations) :
                             \E f \in DOMAIN operations[i].data :
                                 /\ operations[i].data[f].typeof = "string"
                                 /\ startsWithAt(operations[i].data[f].v)
        IN  /\ input.shape = "object" => route = "single" /\ ops = operations
            /\ (input.shape = "array" /\ (Len(operations) > 1 \/ referring)) =>
                  route = "multi" /\ ops = operations
            /\ (input.shape = "array" /\ Len(operations) = 1 /\ ~referring) =>
                  /\ route = "single"
                  /\ ops[1].type = operations[1].type
                  /\ ops[1].sobject = operations[1].sobject
                  /\ ops[1].data = operations[1].data
                  /\ ops[1].recordId = operations[1].recordId

\* An array of one operation whose payload names a temporary id that no
\* operation carries has been through the multi-operation path.
C15_Witness ==
    /\ input.shape = "array"
    /\ Len(input.value) = 1
    /\ \E f \in DOMAIN input.value[1].data : input.value[1].data[f] = Str(MissingTempId)
    /\ route = "multi"
    /\ pc = "returned"

\* the advisory findings of the validation that runs for the operation
advisory(operation) ==
    Range(preflight(operation).warnings) \cup Range(preflight(operation).suggestions)

\* C16: for a single operation, every advisory finding of the validation
\* (UNKNOWN_FIELD, VALIDATION_RULES_EXIST, REFERENCE_CHECK) is in the result
\* handed to the caller once the operation has been dispatched, and an
\* operation with advisory findings only is dispatched.
C16_AdvisorySurfaced ==
    route = "single" =>
        /\ submitted(1) =>
              \A finding \in advisory(ops[1]) :
                  \E k \in 1..Len(result.warnings) : result.warnings[k] = finding.type
        /\ (/\ pc = "returned"
            /\ result.errors # <<"sync failed">>
            /\ preflight(ops[1]).valid
            /\ ~callService(ops[1]).threw) => submitted(1)

\* C17: initialize, ensureMetadata and refreshMetadata reject when the sync
\* of an entity they asked for has failed, and when they return normally no
\* requested entity is missing from the store.
C17_SyncFailurePropagates ==
    lastCall.op \in {"initialize", "ensureMetadata", "refreshMetadata"} =>
        /\ (\E name \in Range(lastCall.missing) : name \in lastCall.failing)
              => lastCall.threw
        /\ ~lastCall.threw =>
              \A name \in Range(lastCall.objects) : sobjects[name].present

\* C18: when ensureMetadataWithRelationships(name, depth >= 1) has returned,
\* every entity that a reference field of `name` points to is in the store,
\* also when the call started from an empty store.  Calls during which the
\* org rejected a describe are left aside.
C18_RelatedEntitiesCached ==
    (/\ lastCall.op = "ensureMetadataWithRelationships"
     /\ lastCall.depth >= 1
     /\ ~lastCall.threw
     /\ lastCall.failing = {}) =>
        LET fields == referenceFields(lastCall.objects[1])
        IN  \A k \in 1..Len(fields) :
                \A j \in 1..Len(fields[k].referenceTo) :
                    sobjects[fields[k].referenceTo[j]].present

\* C19: ensureMetadata(names) and initialize() hand to the sync exactly the
\* requested names for which isCached was false when they were called, and
\* none for which it was true, whatever syncs, setTTL and clearCache went
\* before.
C19_FetchWhatIsNotCached ==
    lastCall.op \in {"initialize", "ensureMetadata"} =>
        /\ Range(lastCall.missing) = Range(lastCall.objects) \ lastCall.cached
        /\ \A k \in 1..Len(lastCall.missing) : lastCall.missing[k] \notin lastCall.cached

\* ensureMetadata has been called for Account and Contact at a time when
\* Account was fresh and Contact had a row that was older than the TTL.
C19_Witness ==
    /\ lastCall.op = "ensureMetadata"
    /\ lastCall.objects = <<"Account", "Contact">>
    /\ lastCall.cached = {"Account"}
    /\ lastCall.missing = <<"Contact">>
    /\ sobjects["Contact"].present
    /\ sobjects["Contact"].synced_at = 0
    /\ lastCall.failing = {"Contact"}
    /\ now > 0

\* the last call has synced the entity: at the instant `now`
syncedNow(name) ==
    /\ lastCall.op \in {"initialize", "ensureMetadata", "refreshMetadata"}
    /\ ~lastCall.threw
    /\ name \in Range(lastCall.missing)
    /\ name \notin lastCall.failing

\* C20: an entity synced at the instant T is reported fresh at T and at
\* T + ttl - 1 ms (hence at every instant between) and stale at
\* T + ttl + 1 ms; an entity without a row is reported stale.
C20_StaleAfterTtl ==
    \A name \in Entities :
        /\ syncedNow(name) =>
              /\ ~isMetadataStale(sobjects, name, ttl, now, zone)
              /\ ~isMetadataStale(sobjects, name, ttl, now + ttl - 1, zone)
              /\ isMetadataStale(sobjects, name, ttl, now + ttl + 1, zone)
        /\ ~sobjects[name].present =>
              /\ isMetadataStale(sobjects, name, ttl, now, zone)
              /\ isMetadataStale(sobjects, name, ttl, now + ttl + 1, zone)


\* the ids the Remote Data Service created for requests of call c
createdFor(c) ==
    {RealIdOf(k) : k \in {j \in 1..Len(ledger) :
                            /\ ledger[j].call = c
                            /\ ledger[j].method = "create"
                            /\ ledger[j].answer = "saved"}}

\* the temporary ids the operations of call c define
tempIdsOf(c) == {calls[c].ops[n].tempId : n \in Nodes(calls[c].ops)} \ {undefined}

\* C21: two overlapping calls of executeWithDependencies never observe each
\* other's temp-id -> real-id mappings or graph nodes: every plan holds only
\* nodes of its own call, every id map maps temporary ids of its own call to
\* ids created for that call, and every reference in a request is resolved
\* to an id created by an operation of the same call.
C21_CallsIsolated ==
    \A c \in DOMAIN calls :
        /\ \A b \in 1..Len(calls[c].plan) :
               Range(calls[c].plan[b].nodeIds) \subseteq Nodes(calls[c].ops)
        /\ \A t \in DOMAIN calls[c].idMap :
               t \in tempIdsOf(c) /\ calls[c].idMap[t] \in createdFor(c)
        /\ \A k \in 1..Len(ledger) :
               ledger[k].call = c =>
                   \A f \in DOMAIN ledger[k].data :
                       LET sent == calls[c].ops[ledger[k].node].data[f]
                       IN  isTempRef(sent) =>
                               /\ ledger[k].data[f].typeof = "string"
                               /\ ledger[k].data[f].v \in createdFor(c)

\* A call sends a request with a resolved reference after the other call,
\* which names its records the same way, has had a record created in between.
C21_Witness ==
    \E i, j, k \in 1..Len(ledger) :
        /\ i < j /\ j < k
        /\ ledger[i].call = ledger[k].call
        /\ ledger[j].call # ledger[i].call
        /\ ledger[j].answer = "saved"
        /\ calls[ledger[j].call].idMap # << >>
        /\ isTempRef(calls[ledger[k].call].ops[ledger[k].node].data["ParentId"])
        /\ ledger[k].data["ParentId"].v \in createdFor(ledger[k].call)


----------------------------------------------------------------------------
(* Properties of the SmartMatcher.                                         *)

\* the call of the matcher has gone through its searches and returned
searched == matcher.pc = "returned" /\ matcher.answered # << >>

\* the patterns that the org answered with a list holding the record
answeredWith(record) ==
    {matcher.answered[k].pattern :
        k \in {j \in 1..Len(matcher.answered) :
                  /\ matcher.answered[j].answer.ok
                  /\ record \in Range(matcher.answered[j].answer.searchRecords)}}

\* the records in the answers of the patterns that did not fail
answeredRecords ==
    UNION {Range(matcher.answered[k].answer.searchRecords) : k \in 1..Len(matcher.answered)}

\* C22: when search patterns issued by findMatches fail, findMatches does
\* not throw: every pattern that is due is still sent, the candidates of the
\* patterns that succeeded are returned (all of them when neither the limit
\* nor a minimum confidence cuts the list), and matchedBy of a candidate
\* lists exactly the succeeded patterns that returned it.
C22_FailedPatternTolerated ==
    searched =>
        /\ [k \in 1..Len(matcher.answered) |-> matcher.answered[k].pattern]
               = patternsFor(matcher.searchTerm)
        /\ \A k \in 1..Len(matcher.result) :
               /\ matcher.result[k].matchedBy # << >>
               /\ Range(matcher.result[k].matchedBy) = answeredWith(matcher.result[k].record)
               /\ Range(matcher.result[k].matchedBy) \cap matcher.failed = {}
        /\ (matcher.effective.minConfidence = undefined
              /\ matcher.effective.limit >= Len(Candidates)) =>
               {matcher.result[k].record : k \in 1..Len(matcher.result)} = answeredRecords

\* findMatches has returned candidates although a pattern failed, and a
\* pattern sent after the failed one contributed a candidate.
C22_Witness ==
    /\ searched
    /\ matcher.op = "findMatches"
    /\ \E i, j \in 1..Len(matcher.answered) :
          /\ i < j
          /\ ~matcher.answered[i].answer.ok
          /\ matcher.answered[j].answer.searchRecords # << >>
          /\ \E k \in 1..Len(matcher.result) :
                matcher.answered[j].pattern \in Range(matcher.result[k].matchedBy)


\* the minimum confidence the caller of a duplicate check configured
configured == matcher.config.minConfidence

\* C23: findDuplicates (also when reached through checkDuplicates) never
\* returns a match below MEDIUM confidence, and when the caller configures
\* minConfidence HIGH it returns only HIGH matches.
C23_ConfidenceFloor ==
    (matcher.pc = "returned" /\ matcher.op \in {"findDuplicates", "checkDuplicates"}) =>
        \A k \in 1..Len(matcher.result) :
            /\ matcher.result[k].confidence \in {"MEDIUM", "HIGH"}
            /\ configured = "HIGH" => matcher.result[k].confidence = "HIGH"

\* C25: every score in a returned MatchResult (the composite similarity
\* after the boost of 5% per additional pattern) lies in [0, 1], for every
\* weights the caller supplies and any number of matching patterns.
C25_ScoreInUnitInterval ==
    matcher.pc = "returned" =>
        \A k \in 1..Len(matcher.result) :
            matcher.result[k].score >= 0 /\ matcher.result[k].score <= One

\* C24: findMatches with an empty search term returns an empty list,
\* whatever the org answers to the searches.
C24_EmptyTermEmptyResult ==
    (matcher.pc = "returned" /\ matcher.op = "findMatches" /\ matcher.searchTerm = "") =>
        matcher.result = << >>


----------------------------------------------------------------------------
(* Properties of the PreflightValidator.                                   *)

\* C26: in every ValidationResult of validateCreate and validateUpdate,
\* valid is true exactly when errors is empty; warnings and suggestions do
\* not change valid.
C26_ValidIffNoErrors ==
    validator.pc = "returned" =>
        (validator.result.valid <=> validator.result.errors = << >>)

\* A validation has returned valid although it pushed a warning and a
\* suggestion.
C26_Witness ==
    /\ validator.pc = "returned"
    /\ validator.result.valid
    /\ validator.result.warnings # << >>
    /\ validator.result.suggestions # << >>

\* the payload holds a value for at least one known field, no key the
\* metadata lacks, and no value validateFields objects to
knownAndValid(sobjectName, data) ==
    /\ DOMAIN data # {}
    /\ validateFieldsErrors(getFields(sobjectName), data) = << >>
    /\ validateFieldsWarnings(getFields(sobjectName), data) = << >>

\* C30: validateUpdate accepts partial payloads: an update of an updateable
\* object whose payload holds only valid values for known fields is valid,
\* whichever fields (required fields and required relationship fields
\* included) are absent.
C30_PartialUpdateValid ==
    (/\ validator.pc = "returned"
     /\ validator.op = "update"
     /\ getSObject(validator.sobject).is_updateable
     /\ knownAndValid(validator.sobject, validator.data))
        => validator.result.valid


\* the operations m references, directly or through other operations
reaches(edges, N) ==
    LET closure[k \in 0..N] ==
            [m \in 1..N |->
                IF k = 0 THEN {e.from : e \in {x \in Range(edges) : x.to = m}}
                ELSE closure[k - 1][m]
                     \cup UNION {closure[k - 1][d] : d \in closure[k - 1][m]}]
    IN  closure[N]

\* the index of the batch of the plan that holds operation n
batchOf(n) == CHOOSE b \in 1..Len(plan) : n \in Range(plan[b].nodeIds)

\* operation n of a non-parallel batch failed: executePlan recorded its error
failedSequential(n) ==
    /\ \E b \in 1..Len(plan) : n \in Range(plan[b].nodeIds) /\ ~isParallel(plan[b])
    /\ \E k \in 1..Len(errors) : errors[k].operation = n

\* C27: when an operation of a non-parallel batch has failed, every operation
\* of a later batch that does not reference it, directly or transitively,
\* is still dispatched before executeWithDependencies returns.
C27_LaterBatchesStillRun ==
    (route = "multi" /\ pc = "returned") =>
        \A n, m \in Nodes(ops) :
            (/\ plan # << >>
             /\ failedSequential(n)
             /\ batchOf(m) > batchOf(n)
             /\ n \notin reaches(graph, Len(ops))[m])
                => started(m)


\* C28: a multi-operation result reports success = true only if every
\* operation was executed and the Remote Data Service reported success for
\* each of them.
C28_SuccessMeansAllSucceeded ==
    (route = "multi" /\ pc = "returned" /\ result.success) =>
        /\ Len(result.operations) = Len(ops)
        /\ \A k \in 1..Len(result.operations) : result.operations[k].success

\* C29: in every MultiOperationResult successfulOperations plus
\* failedOperations equals totalOperations: each operation, also one that
\* was rejected or never executed, is counted exactly once.
C29_CountsAddUp ==
    (route = "multi" /\ pc = "returned") =>
        LET r == executeMultipleOperations(ops, result)
        IN  r.successfulOperations + r.failedOperations = r.totalOperations

====
